---- MODULE Spec2Model ----
(***************************************************************************)
(* State-machine model of the fraud-scoring gateway (ponti93/fdsystem).    *)
(*                                                                         *)
(* Numbers.  Scores, rule weights and the engine weights are decimals with *)
(* at most four places; they are held as integers in units of 1/10000      *)
(* (0.6 is 6000).  The blended score alpha*rnn + beta*rule + gamma*vel is   *)
(* a product of two such numbers and is held in units of 1/10^8 until it   *)
(* is rounded to four places.  Amounts are whole currency units, times are *)
(* seconds.  Arithmetic is exact decimal arithmetic: binary floating-point *)
(* representation error is not modelled.                                   *)
(***************************************************************************)
EXTENDS Integers, Sequences, FiniteSets, TLC

VARIABLES
    transactions,      \* table transactions: transaction_id -> row
    assessments,       \* table fraud_assessments: rows in insertion order
    next_assessment_id,\* serial primary key of fraud_assessments
    users,             \* table users: user_id -> risk_profile document
    rules,             \* table fraud_rules: rows in insertion order
    engine,            \* the FraudDetectionEngine singleton (fraud_engine)
    now,               \* the wall clock, seconds
    pc,                \* per request thread: position inside receive_transaction
    req,               \* per request thread: the locals of receive_transaction
    submitted,         \* number of receive_transaction calls started
    completed,         \* per user: number of calls that returned status success
    upc,               \* per profile caller: position inside update_user_profile
    ureq,              \* per profile caller: the locals of update_user_profile
    updates,           \* number of update_user_profile calls started
    written,           \* history entries of the calls whose write committed
    probe,             \* inputs and result of one stand-alone analyze_transaction call
    lifecycle,         \* the server process: constructed, running, installing (train_model)
    gateway_config     \* which gateway secrets the environment of the process defines

vars == <<transactions, assessments, next_assessment_id, users, rules, engine,
          now, pc, req, submitted, completed, upc, ureq, updates, written,
          probe, lifecycle, gateway_config>>

-----------------------------------------------------------------------------
(* Bounds of the model                                                     *)

NumWorkers == 2
NumTxIds == 2
MaxSubmits == 2
MaxTicks == 1
NumCallers == 2
MaxUpdates == 3
MaxHistory == 7

-----------------------------------------------------------------------------
(* Program constants                                                       *)

Scale == 100 * 100
MaxAmount == 50000000
FraudThresholdHigh == 8000
FraudThresholdMedium == 5000
FraudHistoryKeep == 10
RecentScores == 5
DaySeconds == 24 * 3600
RapidGapSeconds == 300
DefaultSequenceLength == 10

Min(a, b) == IF a <= b THEN a ELSE b
Max(a, b) == IF a >= b THEN a ELSE b
Abs(a) == IF a < 0 THEN 0 - a ELSE a

RECURSIVE SumSeq(_)
SumSeq(s) == IF s = <<>> THEN 0 ELSE Head(s) + SumSeq(Tail(s))

\* s[-k:] of Python: the last k elements (all of s when it is shorter)
LastK(s, k) == IF Len(s) <= k THEN s ELSE SubSeq(s, Len(s) - k + 1, Len(s))

\* floor(a * 1000 / c) for 0 <= a < c, by long division (no 32-bit overflow)
MulDiv1000(a, c) ==
    LET d1 == (a * 10) \div c
        r1 == (a * 10) % c
        d2 == (r1 * 10) \div c
        r2 == (r1 * 10) % c
        d3 == (r2 * 10) \div c
    IN  d1 * 100 + d2 * 10 + d3

\* round(x, 4) for x in units of 1/10^8, result in units of 1/10000
\* (Python rounds halves to the even neighbour)
Round4(x) ==
    LET q == x \div Scale
        r == x % Scale
    IN  IF r * 2 > Scale THEN q + 1
        ELSE IF r * 2 < Scale THEN q
        ELSE IF q % 2 = 0 THEN q ELSE q + 1

-----------------------------------------------------------------------------
(* Strings that the program inspects are sequences of characters           *)

UpperChars == <<"A","B","C","D","E","F","G","H","I","J","K","L","M",
                "N","O","P","Q","R","S","T","U","V","W","X","Y","Z">>
LowerChars == <<"a","b","c","d","e","f","g","h","i","j","k","l","m",
                "n","o","p","q","r","s","t","u","v","w","x","y","z">>

LowerChar(c) ==
    IF \E i \in 1..26 : UpperChars[i] = c
    THEN LowerChars[CHOOSE i \in 1..26 : UpperChars[i] = c]
    ELSE c

\* str.lower()
Lower(s) == [i \in 1..Len(s) |-> LowerChar(s[i])]

\* Python's "sub in s" on strings
IsSubstring(sub, s) ==
    \E i \in 0..(Len(s) - Len(sub)) :
        \A j \in 1..Len(sub) : s[i + j] = sub[j]

\* dict.get(key, default)
Get(d, key, default) == IF key \in DOMAIN d THEN d[key] ELSE default

-----------------------------------------------------------------------------
(* Seed data of init_database                                              *)

Casino == <<"c","a","s","i","n","o">>
Gambling == <<"g","a","m","b","l","i","n","g">>
Crypto == <<"c","r","y","p","t","o">>
Betting == <<"b","e","t","t","i","n","g">>

CoffeeShop == <<"C","o","f","f","e","e"," ","S","h","o","p">>
CasinoResort == <<"C","a","s","i","n","o"," ","R","e","s","o","r","t">>

DefaultRules ==
    << [rule_id |-> 1, rule_name |-> "high_amount", is_active |-> TRUE,
        weight |-> 6000, rule_logic |-> [threshold |-> 500000]],
       [rule_id |-> 2, rule_name |-> "round_amount", is_active |-> TRUE,
        weight |-> 3000,
        rule_logic |-> [amounts |-> {100000, 200000, 500000, 1000000, 2000000}]],
       [rule_id |-> 3, rule_name |-> "very_high_amount", is_active |-> TRUE,
        weight |-> 5000, rule_logic |-> [threshold |-> 1000000]],
       [rule_id |-> 4, rule_name |-> "risky_merchant", is_active |-> TRUE,
        weight |-> 4000,
        rule_logic |-> [categories |-> <<Casino, Gambling, Crypto, Betting>>]],
       [rule_id |-> 5, rule_name |-> "unusual_time", is_active |-> TRUE,
        weight |-> 2000, rule_logic |-> [start_hour |-> 23, end_hour |-> 6]],
       [rule_id |-> 6, rule_name |-> "velocity_check", is_active |-> TRUE,
        weight |-> 7000,
        rule_logic |-> [max_transactions |-> 5, time_window |-> 300]] >>

\* risk_profile of a user created with no profile (create_user: risk_profile or {})
EmptyProfile == [transaction_count |-> 0, avg_amount |-> 0, fraud_history |-> <<>>,
                 risk_level |-> "none"]

-----------------------------------------------------------------------------
(* Store queries                                                           *)

\* the query without its filter on is_active
GetActiveFraudRulesUnfiltered(rs) == rs

\* get_active_fraud_rules: the rows with is_active, in table order
GetActiveFraudRules(rs) == SelectSeq(rs, LAMBDA r : r.is_active)

\* datetime.hour of a timestamp in seconds
HourOf(ts) == (ts \div 3600) % 24

\* insert x into a sequence of rows kept newest first (ties by transaction_id)
RECURSIVE InsertDesc(_, _)
InsertDesc(x, s) ==
    IF s = <<>> THEN <<x>>
    ELSE IF \/ x.timestamp > Head(s).timestamp
            \/ x.timestamp = Head(s).timestamp /\ x.transaction_id <= Head(s).transaction_id
         THEN <<x>> \o s
         ELSE <<Head(s)>> \o InsertDesc(x, Tail(s))

RECURSIVE OrderDesc(_, _)
OrderDesc(T, ids) ==
    IF ids = {} THEN <<>>
    ELSE LET t == CHOOSE i \in ids : TRUE
         IN  InsertDesc(T[t], OrderDesc(T, ids \ {t}))

\* get_user_transaction_history(user_id, days): the user's rows with
\* timestamp >= utcnow - days, newest first, projected to the history dict
GetUserTransactionHistory(T, user_id, days, clock) ==
    LET cutoff == clock - days * DaySeconds
        ids == {t \in DOMAIN T : T[t].user_id = user_id /\ T[t].timestamp >= cutoff}
        rows == OrderDesc(T, ids)
    IN  [i \in 1..Len(rows) |->
            [transaction_id |-> rows[i].transaction_id,
             amount |-> rows[i].amount,
             timestamp |-> rows[i].timestamp]]

\* get_fraud_assessment: the first row for the transaction, if any
AssessmentsOf(A, t) == SelectSeq(A, LAMBDA a : a.transaction_id = t)

-----------------------------------------------------------------------------
(* Scoring engine: rules                                                   *)

\* _evaluate_rule with a rule of any other name triggering at its weight
EvaluateRuleAnyName(tx, rule) ==
    LET logic == rule.rule_logic
        amount == tx.amount
        merchant == Lower(tx.merchant_id)
        hour == HourOf(tx.timestamp)
        hit ==
          CASE rule.rule_name = "high_amount" ->
                 amount > Get(logic, "threshold", 500000)
            [] rule.rule_name = "round_amount" ->
                 amount \in Get(logic, "amounts", {})
            [] rule.rule_name = "very_high_amount" ->
                 amount > Get(logic, "threshold", 1000000)
            [] rule.rule_name = "risky_merchant" ->
                 LET cats == Get(logic, "categories", <<>>)
                 IN  \E i \in 1..Len(cats) : IsSubstring(cats[i], merchant)
            [] rule.rule_name = "unusual_time" ->
                 LET start_hour == Get(logic, "start_hour", 23)
                     end_hour == Get(logic, "end_hour", 6)
                 IN  IF start_hour > end_hour
                     THEN hour >= start_hour \/ hour <= end_hour
                     ELSE start_hour <= hour /\ hour <= end_hour
            [] OTHER -> TRUE
    IN  IF hit THEN <<TRUE, rule.weight>> ELSE <<FALSE, 0>>

\* _evaluate_rule: <<triggered, contribution>>
EvaluateRule(tx, rule) ==
    LET logic == rule.rule_logic
        amount == tx.amount
        merchant == Lower(tx.merchant_id)
        hour == HourOf(tx.timestamp)
        hit ==
          CASE rule.rule_name = "high_amount" ->
                 amount > Get(logic, "threshold", 500000)
            [] rule.rule_name = "round_amount" ->
                 amount \in Get(logic, "amounts", {})
            [] rule.rule_name = "very_high_amount" ->
                 amount > Get(logic, "threshold", 1000000)
            [] rule.rule_name = "risky_merchant" ->
                 LET cats == Get(logic, "categories", <<>>)
                 IN  \E i \in 1..Len(cats) : IsSubstring(cats[i], merchant)
            [] rule.rule_name = "unusual_time" ->
                 LET start_hour == Get(logic, "start_hour", 23)
                     end_hour == Get(logic, "end_hour", 6)
                 IN  IF start_hour > end_hour
                     THEN hour >= start_hour \/ hour <= end_hour
                     ELSE start_hour <= hour /\ hour <= end_hour
            [] OTHER -> FALSE
    IN  IF hit THEN <<TRUE, rule.weight>> ELSE <<FALSE, 0>>

RECURSIVE RuleFold(_, _, _, _)
RuleFold(tx, rs, total, triggered) ==
    IF rs = <<>> THEN [total |-> total, triggered |-> triggered]
    ELSE LET r == Head(rs)
             e == EvaluateRule(tx, r)
         IN  IF e[1]
             THEN RuleFold(tx, Tail(rs), total + e[2],
                           Append(triggered, [factor |-> r.rule_name,
                                              weight |-> r.weight,
                                              triggered |-> TRUE]))
             ELSE RuleFold(tx, Tail(rs), total, triggered)

\* the sum of the contributions returned as it is, with line 188 taken away
NormalizeRuleScoreOmitted(total) == total

\* min(total_score, 1.0)
NormalizeRuleScore(total) == Min(total, Scale)

\* _get_rule_score; db_ok = FALSE is the store raising while the rules are loaded
GetRuleScore(tx, rs, db_ok) ==
    IF ~db_ok THEN [score |-> 0, factors |-> <<>>]
    ELSE LET f == RuleFold(tx, GetActiveFraudRules(rs), 0, <<>>)
         IN  [score |-> NormalizeRuleScore(f.total), factors |-> f.triggered]

-----------------------------------------------------------------------------
(* Scoring engine: velocity                                                *)

\* _analyze_frequency
AnalyzeFrequency(h) ==
    IF Len(h) > 5 THEN Min((Len(h) - 5) * 1000, 5000) ELSE 0

\* _analyze_amount_patterns.  ratio = current / mean(recent); the test
\* ratio > 5 or ratio < 0.2 and the value min(|ratio - 1| * 0.1, 0.3) are
\* computed on integers: with n amounts of sum s, ratio = current * n / s.
AnalyzeAmountPatterns(h, tx) ==
    IF Len(h) < 2 THEN 0
    ELSE LET s == SumSeq([i \in 1..Len(h) |-> h[i].amount])
             c == tx.amount * Len(h)
         IN  IF s <= 0 THEN 0
             ELSE IF c > 5 * s THEN 3000
             ELSE IF 5 * c < s THEN Min(1000 - MulDiv1000(c, s), 3000)
             ELSE 0

\* list.sort() of the timestamps
RECURSIVE InsertAsc(_, _)
InsertAsc(x, s) ==
    IF s = <<>> THEN <<x>>
    ELSE IF x <= Head(s) THEN <<x>> \o s
         ELSE <<Head(s)>> \o InsertAsc(x, Tail(s))

RECURSIVE SortAsc(_)
SortAsc(s) == IF s = <<>> THEN <<>> ELSE InsertAsc(Head(s), SortAsc(Tail(s)))

\* _analyze_time_patterns
AnalyzeTimePatterns(h) ==
    IF Len(h) < 3 THEN 0
    ELSE LET ts == SortAsc([i \in 1..Len(h) |-> h[i].timestamp])
             rapid_count == Cardinality({i \in 2..Len(ts) :
                                            ts[i] - ts[i - 1] < RapidGapSeconds})
         IN  IF rapid_count > 2 THEN Min(rapid_count * 1000, 2000) ELSE 0

VelocityFactor(name, w) == [factor |-> name, weight |-> w, triggered |-> TRUE]

\* _get_velocity_score listing a factor for every signal, the ones that
\* contribute nothing included
GetVelocityScoreAllFactors(tx, h, db_ok) ==
    IF tx.user_id = 0 \/ ~db_ok THEN [score |-> 0, factors |-> <<>>]
    ELSE IF Len(h) = 0 THEN [score |-> 0, factors |-> <<>>]
    ELSE LET f == AnalyzeFrequency(h)
             a == AnalyzeAmountPatterns(h, tx)
             t == AnalyzeTimePatterns(h)
         IN  [score |-> Min(f + a + t, Scale),
              factors |-> <<VelocityFactor("high_frequency", f),
                            VelocityFactor("unusual_amount_pattern", a),
                            VelocityFactor("unusual_time_pattern", t)>>]

\* _get_velocity_score on the history the store returned; db_ok = FALSE is
\* the store raising while the history is fetched
GetVelocityScore(tx, h, db_ok) ==
    IF tx.user_id = 0 \/ ~db_ok THEN [score |-> 0, factors |-> <<>>]
    ELSE IF Len(h) = 0 THEN [score |-> 0, factors |-> <<>>]
    ELSE LET f == AnalyzeFrequency(h)
             a == AnalyzeAmountPatterns(h, tx)
             t == AnalyzeTimePatterns(h)
         IN  [score |-> Min(f + a + t, Scale),
              factors |->
                 (IF f > 0 THEN <<VelocityFactor("high_frequency", f)>> ELSE <<>>)
                 \o (IF a > 0 THEN <<VelocityFactor("unusual_amount_pattern", a)>> ELSE <<>>)
                 \o (IF t > 0 THEN <<VelocityFactor("unusual_time_pattern", t)>> ELSE <<>>)]

-----------------------------------------------------------------------------
(* Scoring engine: combination and decision                                *)

\* the blend left as it is, with line 104 taken away
ClampScoreOmitted(x) == x

\* max(0.0, min(1.0, final_score)), in units of 1/10^8
ClampScore(x) == Max(0, Min(Scale * Scale, x))

\* _make_decision, on the unrounded score in units of 1/10^8
MakeDecision(final) ==
    IF final >= FraudThresholdHigh * Scale THEN "DECLINE"
    ELSE IF final >= FraudThresholdMedium * Scale THEN "REVIEW"
    ELSE "APPROVE"

\* _calculate_confidence, in units of 1/10^8
CalculateConfidence(final, risk_factors) ==
    LET score_confidence == Abs(final - 5000 * Scale) * 2
        factor_confidence == Min(Len(risk_factors) * 1000, 5000) * Scale
    IN  Min(score_confidence + factor_confidence, Scale * Scale)

\* analyze_transaction, lines 98-132: the result of the normal path
NormalResult(e, tx, rnn_score, rule, velocity) ==
    LET rnn_factors == IF rnn_score > 5000
                       THEN <<[factor |-> "rnn_prediction", weight |-> rnn_score,
                               triggered |-> TRUE]>>
                       ELSE <<>>
        risk_factors == rnn_factors \o rule.factors \o velocity.factors
        final_score == ClampScore(e.alpha * rnn_score + e.beta * rule.score
                                  + e.gamma * velocity.score)
    IN  [transaction_id |-> tx.transaction_id,
         fraud_score |-> Round4(final_score),
         decision |-> MakeDecision(final_score),
         confidence_level |-> Round4(CalculateConfidence(final_score, risk_factors)),
         risk_factors |-> risk_factors,
         component_scores |-> [rnn_score |-> rnn_score, rule_score |-> rule.score,
                               velocity_score |-> velocity.score],
         model_version |-> IF e.model_loaded THEN e.model_version
                           ELSE "rule_based_v1.0"]

\* the except branch answering with an acceptance instead of a review
ErrorResultApproved(tx) ==
    [transaction_id |-> tx.transaction_id,
     fraud_score |-> 0,
     decision |-> "APPROVE",
     confidence_level |-> 0,
     risk_factors |-> <<>>,
     error |-> TRUE]

\* analyze_transaction, lines 134-145: the safe default of the except branch
ErrorResult(tx) ==
    [transaction_id |-> tx.transaction_id,
     fraud_score |-> 5000,
     decision |-> "REVIEW",
     confidence_level |-> 0,
     risk_factors |-> <<[factor |-> "analysis_error", weight |-> 5000,
                         triggered |-> TRUE]>>,
     error |-> TRUE]

-----------------------------------------------------------------------------
(* Scoring engine: the singleton, the preprocessor and the model           *)

\* the construction with the fallback of _load_rnn_model assigning beta and
\* gamma only
EngineInitAlphaKept(load_ok, seq_len) ==
    [model_loaded |-> load_ok,
     model_version |-> "v1.0.0",
     sequence_length |-> seq_len,
     has_preprocessor |-> load_ok,
     rnn_model |-> 0,
     preprocessor_model |-> 0,
     transaction_buffer |-> <<>>,
     alpha |-> 6000,
     beta |-> IF load_ok THEN 3000 ELSE 8000,
     gamma |-> IF load_ok THEN 1000 ELSE 2000]

\* FraudDetectionEngine.__init__ followed by _load_rnn_model; load_ok is
\* whether rnn_model.load_model() found a model artifact; rnn_model is the
\* identity of the FraudDetectionRNN object the engine refers to (0 is the
\* one made by __init__) and preprocessor_model the identity of the object
\* the preprocessor was made for
EngineInit(load_ok, seq_len) ==
    [model_loaded |-> load_ok,
     model_version |-> "v1.0.0",
     sequence_length |-> seq_len,
     has_preprocessor |-> load_ok,
     rnn_model |-> 0,
     preprocessor_model |-> 0,
     transaction_buffer |-> <<>>,
     alpha |-> IF load_ok THEN 6000 ELSE 0,
     beta |-> IF load_ok THEN 3000 ELSE 8000,
     gamma |-> IF load_ok THEN 1000 ELSE 2000]

\* prepare_transaction_features: the columns that depend only on the
\* transaction (amount, user_id); the hashed columns are process-dependent
PrepareTransactionFeatures(tx) == [amount |-> tx.amount, user_id |-> tx.user_id]

\* the buffer afterwards with lines 302-303 taken away: the oldest row stays
AddTransactionBufferKept(buffer, tx, seq_len) ==
    Append(buffer, PrepareTransactionFeatures(tx))

\* FraudDetectionPreprocessor.add_transaction: the buffer afterwards
AddTransactionBuffer(buffer, tx, seq_len) ==
    LET b == Append(buffer, PrepareTransactionFeatures(tx))
    IN  IF Len(b) > seq_len THEN Tail(b) ELSE b

\* add_transaction returns a sequence exactly when the buffer is full
SequenceReady(buffer, seq_len) == Len(buffer) = seq_len

\* what the network can return for a sequence (a sigmoid output)
RnnOutputs == {0, 8333, 9000}

-----------------------------------------------------------------------------
(* Intake: validation and normalisation                                    *)

NGN == <<"N","G","N">>
USD == <<"U","S","D">>
EUR == <<"E","U","R">>
GBP == <<"G","B","P">>
ValidCurrencies == {NGN, USD, EUR, GBP}
Unknown == <<"U","n","k","n","o","w","n">>

UpperChar(c) ==
    IF \E i \in 1..26 : LowerChars[i] = c
    THEN UpperChars[CHOOSE i \in 1..26 : LowerChars[i] = c]
    ELSE c

\* str.upper()
Upper(s) == [i \in 1..Len(s) |-> UpperChar(s[i])]

\* the addresses of the model that ipaddress.ip_address() parses
ParsableIps == {"192.168.1.100"}

\* validate_transaction: the set of reasons; a transaction dict is a record
\* whose absent keys are absent from its domain
ValidationErrors(d) ==
    (IF "amount" \notin DOMAIN d THEN {"Missing required field: amount"} ELSE {})
    \cup (IF "user_id" \notin DOMAIN d THEN {"Missing required field: user_id"} ELSE {})
    \cup (IF "currency" \notin DOMAIN d THEN {"Missing required field: currency"} ELSE {})
    \cup (IF Get(d, "amount", 0) <= 0 THEN {"Amount must be greater than 0"}
          ELSE IF Get(d, "amount", 0) > MaxAmount THEN {"Amount exceeds maximum limit"}
          ELSE {})
    \cup (IF Upper(Get(d, "currency", <<>>)) \notin ValidCurrencies
          THEN {"Unsupported currency"} ELSE {})
    \cup (IF Get(d, "user_id", 0) <= 0 THEN {"Invalid user ID"} ELSE {})
    \cup (IF "ip_address" \in DOMAIN d /\ d.ip_address \notin ParsableIps
          THEN {"Invalid IP address format"} ELSE {})
    \cup (IF "email" \in DOMAIN d /\ d.email # <<>>
             /\ ~(\E i \in 1..Len(d.email) : d.email[i] = "@")
          THEN {"Invalid email format"} ELSE {})

ValidateTransaction(d) == ValidationErrors(d) = {}

\* _prepare_transaction; generated_id stands for TXN_<date>_<8 hex of a uuid4>
PrepareTransaction(d, generated_id, clock) ==
    [transaction_id |-> IF Get(d, "transaction_id", 0) # 0 THEN d.transaction_id
                        ELSE generated_id,
     user_id |-> d.user_id,
     amount |-> d.amount,
     currency |-> Upper(Get(d, "currency", NGN)),
     merchant_id |-> Get(d, "merchant_id", Get(d, "merchant", Unknown)),
     timestamp |-> Get(d, "timestamp", clock),
     transaction_status |-> "pending"]

\* _update_transaction_status: status_mapping.get(decision, 'pending')
StatusMapping(decision) ==
    CASE decision = "APPROVE" -> "approved"
      [] decision = "DECLINE" -> "declined"
      [] decision = "REVIEW" -> "under_review"
      [] OTHER -> "pending"

-----------------------------------------------------------------------------
(* The request threads running TransactionProcessor.receive_transaction    *)

Workers == 1..NumWorkers
TxIds == 1..NumTxIds
\* the ids _prepare_transaction can generate (disjoint from the supplied ones)
GeneratedIds == {NumTxIds + 1}
UserIds == {1}
Statuses == {"pending", "approved", "declined", "under_review"}
Decisions == {"APPROVE", "REVIEW", "DECLINE"}
TickSeconds == 60
StartOfClock == 14 * 3600

\* the transaction dicts the callers submit
SubmitInputs ==
    {[transaction_id |-> t, user_id |-> 1, amount |-> a, currency |-> NGN,
      merchant_id |-> CoffeeShop] : t \in TxIds, a \in {100000, 2000000}}
    \cup {[user_id |-> 1, amount |-> 100000, currency |-> <<"n","g","n">>,
           merchant_id |-> CoffeeShop]}
    \cup {[transaction_id |-> 1, user_id |-> 1, amount |-> 0, currency |-> NGN]}

NoTx == [transaction_id |-> 0]
NoResult == [decision |-> "none"]
NoResponse == [status |-> "none"]
IdleReq == [input |-> NoTx, tx |-> NoTx, saved |-> FALSE, history |-> <<>>,
            fraud_result |-> NoResult, assessment_id |-> 0, response |-> NoResponse]

\* the except branch raising again instead of answering
ErrorResponseRaised(d, why) ==
    [status |-> "raised", error |-> why, transaction_id |-> Get(d, "transaction_id", 0)]

\* lines 83-89 (and 37-41) of receive_transaction: the error response
ErrorResponse(d, why) ==
    [status |-> "error", error |-> why, transaction_id |-> Get(d, "transaction_id", 0)]

\* lines 69-78 of receive_transaction
SuccessResponse(row, result, assessment_id) ==
    [status |-> "success", transaction_id |-> row.transaction_id,
     user_id |-> row.user_id, amount |-> row.amount, currency |-> row.currency,
     fraud_analysis |-> result, assessment_id |-> assessment_id]

InFlightIds == {req[w].tx.transaction_id : w \in {v \in Workers : pc[v] # "idle"}}

\* lines 34-45 for the dict d: validation, then normalisation; input is
\* what the request thread keeps of the request
ReceiveTransaction(w, d, input) ==
    IF ~ValidateTransaction(d)
    THEN /\ pc' = [pc EXCEPT ![w] = "done"]
         /\ req' = [req EXCEPT ![w] =
                       [IdleReq EXCEPT !.input = input,
                                       !.response = ErrorResponse(d, "validation")]]
    ELSE \E g \in GeneratedIds :
         /\ Get(d, "transaction_id", 0) # 0
            \/ g \notin (DOMAIN transactions \cup InFlightIds)
         /\ pc' = [pc EXCEPT ![w] = "save_transaction"]
         /\ req' = [req EXCEPT ![w] =
                       [IdleReq EXCEPT !.input = input,
                                       !.tx = PrepareTransaction(d, g, now)]]

\* POST /api/transactions: process_transaction on the request body
Begin(w) ==
    /\ pc[w] = "idle"
    /\ submitted < MaxSubmits
    /\ \E d \in SubmitInputs : ReceiveTransaction(w, d, d)
    /\ submitted' = submitted + 1
    /\ UNCHANGED <<transactions, assessments, next_assessment_id, users, rules,
                   engine, now, completed, upc, ureq, updates,
                   written, probe,
                   lifecycle, gateway_config>>

\* an INSERT that replaces the row of a taken primary key
CanInsertTransactionUpsert(T, tx) == tx.user_id \in DOMAIN users

\* whether the INSERT of save_transaction commits: the primary key is free
\* and the user row exists (foreign key)
CanInsertTransaction(T, tx) ==
    /\ tx.transaction_id \notin DOMAIN T
    /\ tx.user_id \in DOMAIN users

InsertTransaction(T, tx) ==
    [t \in DOMAIN T \cup {tx.transaction_id} |->
        IF t = tx.transaction_id THEN tx ELSE T[t]]

\* line 48: save_transaction (add, commit, refresh)
SaveTransaction(w) ==
    /\ pc[w] = "save_transaction"
    /\ \E store_ok \in BOOLEAN :
         IF store_ok /\ CanInsertTransaction(transactions, req[w].tx)
         THEN /\ transactions' = InsertTransaction(transactions, req[w].tx)
              /\ req' = [req EXCEPT ![w].saved = TRUE]
              /\ pc' = [pc EXCEPT ![w] = "analyze"]
         ELSE /\ transactions' = transactions
              /\ req' = [req EXCEPT ![w].response =
                            ErrorResponse(req[w].input, "save_transaction")]
              /\ pc' = [pc EXCEPT ![w] = "done"]
    /\ UNCHANGED <<assessments, next_assessment_id, users, rules, engine, now,
                   submitted, completed, upc, ureq, updates,
                   written, probe,
                   lifecycle, gateway_config>>

HistoryIds(h) == [i \in 1..Len(h) |-> h[i].transaction_id]

\* _get_rnn_score: the engine's buffer after the call (unchanged when no
\* model or no preprocessor is installed, line 81)
RnnBuffer(e, tx) ==
    IF e.model_loaded /\ e.has_preprocessor
    THEN AddTransactionBuffer(e.transaction_buffer, tx, e.sequence_length)
    ELSE e.transaction_buffer

\* _get_rnn_score: the scores the call can return
RnnScores(e, tx) ==
    IF e.model_loaded /\ e.has_preprocessor
       /\ SequenceReady(RnnBuffer(e, tx), e.sequence_length)
    THEN RnnOutputs
    ELSE {0}

\* line 51: analyze_transaction_fraud(processed_transaction, db).  rules_ok
\* and history_ok are the two store reads going through; fault is an
\* exception escaping to the except branch of analyze_transaction.
Analyze(w) ==
    /\ pc[w] = "analyze"
    /\ \E rules_ok \in BOOLEAN, history_ok \in BOOLEAN, fault \in BOOLEAN :
       \E rnn_score \in RnnScores(engine, req[w].tx) :
         LET tx == req[w].tx
             r == GetRuleScore(tx, rules, rules_ok)
             h == IF history_ok
                  THEN GetUserTransactionHistory(transactions, tx.user_id, 1, now)
                  ELSE <<>>
             v == GetVelocityScore(tx, h, history_ok)
         IN  req' = [req EXCEPT
                       ![w].history = HistoryIds(h),
                       ![w].fraud_result =
                           IF fault THEN ErrorResult(tx)
                           ELSE NormalResult(engine, tx, rnn_score, r, v)]
    /\ engine' = [engine EXCEPT !.transaction_buffer = RnnBuffer(engine, req[w].tx)]
    /\ pc' = [pc EXCEPT ![w] = "save_assessment"]
    /\ UNCHANGED <<transactions, assessments, next_assessment_id, users, rules,
                   now, submitted, completed, upc, ureq, updates,
                   written, probe,
                   lifecycle, gateway_config>>

\* an INSERT into a table without the foreign key
CanInsertAssessmentUnchecked(T, t) == TRUE

\* whether the INSERT of save_fraud_assessment commits: the transaction row
\* it refers to exists (foreign key)
CanInsertAssessment(T, t) == t \in DOMAIN T

AssessmentRow(id, result) ==
    [assessment_id |-> id,
     transaction_id |-> result.transaction_id,
     fraud_score |-> result.fraud_score,
     decision |-> result.decision,
     risk_factors |-> Get(result, "risk_factors", <<>>),
     confidence_level |-> Get(result, "confidence_level", 0),
     model_version |-> Get(result, "model_version", "unknown")]

\* lines 54-63: save_fraud_assessment (add, commit, refresh)
SaveAssessment(w) ==
    /\ pc[w] = "save_assessment"
    /\ \E store_ok \in BOOLEAN :
         IF store_ok /\ CanInsertAssessment(transactions, req[w].tx.transaction_id)
         THEN /\ assessments' = Append(assessments,
                                   AssessmentRow(next_assessment_id, req[w].fraud_result))
              /\ next_assessment_id' = next_assessment_id + 1
              /\ req' = [req EXCEPT ![w].assessment_id = next_assessment_id]
              /\ pc' = [pc EXCEPT ![w] = "update_status"]
         ELSE /\ UNCHANGED <<assessments, next_assessment_id>>
              /\ req' = [req EXCEPT ![w].response =
                            ErrorResponse(req[w].input, "save_fraud_assessment")]
              /\ pc' = [pc EXCEPT ![w] = "done"]
    /\ UNCHANGED <<transactions, users, rules, engine, now, submitted, completed,
                   upc, ureq, updates,
                   written, probe,
                   lifecycle, gateway_config>>

SetStatus(T, t, status) == [T EXCEPT ![t].transaction_status = status]

\* what _update_transaction_status leaves in the table: the mapped status
\* when the row is found and the commit goes through, else no change (the
\* exception is logged and swallowed)
UpdateStatusWrite(T, t, decision, store_ok) ==
    IF store_ok /\ t \in DOMAIN T THEN SetStatus(T, t, StatusMapping(decision)) ELSE T

\* lines 66-81: _update_transaction_status and the response.  The session
\* expires saved_transaction at every commit, so reading it reloads the row:
\* with the row gone (or the store down for the reload) the read raises and
\* the except branch of receive_transaction answers.
UpdateStatus(w) ==
    /\ pc[w] = "update_status"
    /\ LET t == req[w].tx.transaction_id
           d == req[w].fraud_result.decision
       IN  \E store_ok \in BOOLEAN, reload_ok \in BOOLEAN :
             IF reload_ok /\ t \in DOMAIN transactions
             THEN /\ transactions' = UpdateStatusWrite(transactions, t, d, store_ok)
                  /\ req' = [req EXCEPT ![w].response =
                                SuccessResponse(transactions'[t], req[w].fraud_result,
                                                req[w].assessment_id)]
                  /\ completed' = [completed EXCEPT ![req[w].tx.user_id] = @ + 1]
             ELSE /\ transactions' = transactions
                  /\ req' = [req EXCEPT ![w].response =
                                ErrorResponse(req[w].input, "reload")]
                  /\ completed' = completed
    /\ pc' = [pc EXCEPT ![w] = "done"]
    /\ UNCHANGED <<assessments, next_assessment_id, users, rules, engine, now,
                   submitted, upc, ureq, updates,
                   written, probe,
                   lifecycle, gateway_config>>

\* the caller takes the response; the thread serves the next request
Return(w) ==
    /\ pc[w] = "done"
    /\ pc' = [pc EXCEPT ![w] = "idle"]
    /\ req' = [req EXCEPT ![w] = IdleReq]
    /\ UNCHANGED <<transactions, assessments, next_assessment_id, users, rules,
                   engine, now, submitted, completed, upc, ureq, updates,
                   written, probe,
                   lifecycle, gateway_config>>

\* TransactionProcessor.update_transaction_status(transaction_id, status)
UpdateTransactionStatus(t, status) ==
    /\ t \in DOMAIN transactions
    /\ transactions[t].transaction_status # status
    /\ transactions' = SetStatus(transactions, t, status)
    /\ UNCHANGED <<assessments, next_assessment_id, users, rules, engine, now, pc,
                   req, submitted, completed, upc, ureq, updates,
                   written, probe,
                   lifecycle, gateway_config>>

EmptyTable == [t \in {} |-> NoTx]

\* a clear that deletes the transactions and leaves the assessments
ClearTransactionsOnly ==
    /\ DOMAIN transactions # {}
    /\ assessments' = assessments
    /\ transactions' = EmptyTable
    /\ UNCHANGED <<next_assessment_id, users, rules, engine, now, pc, req,
                   submitted, completed, upc, ureq, updates,
                   written, probe,
                   lifecycle, gateway_config>>

\* main.clear_transactions: both deletes in one commit
ClearTransactions ==
    /\ DOMAIN transactions # {}
    /\ assessments' = <<>>
    /\ transactions' = EmptyTable
    /\ UNCHANGED <<next_assessment_id, users, rules, engine, now, pc, req,
                   submitted, completed, upc, ureq, updates,
                   written, probe,
                   lifecycle, gateway_config>>

Tick ==
    /\ now < StartOfClock + MaxTicks * TickSeconds
    /\ now' = now + TickSeconds
    /\ UNCHANGED <<transactions, assessments, next_assessment_id, users, rules,
                   engine, pc, req, submitted, completed, upc, ureq, updates,
                   written, probe,
                   lifecycle, gateway_config>>

-----------------------------------------------------------------------------
(* Specification of the intake pipeline under concurrent requests          *)

\* the environment at process start: PAYSTACK_SECRET_KEY,
\* FLUTTERWAVE_ENCRYPTION_KEY and FLUTTERWAVE_WEBHOOK_HASH are set or not
GatewayConfigs ==
    [paystack_secret_key : BOOLEAN, encryption_key : BOOLEAN, webhook_hash : BOOLEAN]

AllConfigured ==
    [paystack_secret_key |-> TRUE, encryption_key |-> TRUE, webhook_hash |-> TRUE]

Callers == 1..NumCallers
IdleUpdate == [user_id |-> 0, profile |-> EmptyProfile]
NoProbe == [tx |-> NoTx, result |-> NoResult]

Init ==
    /\ transactions = EmptyTable
    /\ assessments = <<>>
    /\ next_assessment_id = 1
    /\ users = [u \in UserIds |-> EmptyProfile]
    /\ rules = DefaultRules
    /\ engine = EngineInit(FALSE, DefaultSequenceLength)
    /\ now = StartOfClock
    /\ pc = [w \in Workers |-> "idle"]
    /\ req = [w \in Workers |-> IdleReq]
    /\ submitted = 0
    /\ completed = [u \in UserIds |-> 0]
    /\ upc = [c \in Callers |-> "idle"]
    /\ ureq = [c \in Callers |-> IdleUpdate]
    /\ updates = 0
    /\ written = <<>>
    /\ probe = NoProbe
    /\ lifecycle = "running"
    /\ gateway_config = AllConfigured

Next ==
    \/ \E w \in Workers : Begin(w)
    \/ \E w \in Workers : SaveTransaction(w)
    \/ \E w \in Workers : Analyze(w)
    \/ \E w \in Workers : SaveAssessment(w)
    \/ \E w \in Workers : UpdateStatus(w)
    \/ \E w \in Workers : Return(w)
    \/ ClearTransactions

Spec == Init /\ [][Next]_vars

\* the pipeline together with the public status setter of the processor
NextCore ==
    \/ Next
    \/ \E t \in TxIds, s \in Statuses : UpdateTransactionStatus(t, s)

SpecCore == Init /\ [][NextCore]_vars

-----------------------------------------------------------------------------
(* update_user_profile: the read-modify-write of users.risk_profile        *)

UnknownUserId == Cardinality(UserIds) + 1

\* what analyze_transaction handed to the caller: fraud_score and decision
ProfileInputs ==
    { [amount |-> a, fraud_score |-> s, decision |-> MakeDecision(s * Scale)] :
        a \in {100000, 250001}, s \in {1000, 9000} }

\* round(n / d, 0) for n >= 0: Python rounds halves to the even neighbour
RoundDiv(n, d) ==
    LET q == n \div d
        r == n % d
    IN  IF 2 * r < d THEN q
        ELSE IF 2 * r > d THEN q + 1
        ELSE IF q % 2 = 0 THEN q ELSE q + 1

\* avg_recent_score > 0.7 / > 0.4 over fraud_history[-5:], before the cut to 10
RiskLevel(fraud_history) ==
    LET recent == LastK(fraud_history, RecentScores)
        total == SumSeq([i \in 1..Len(recent) |-> recent[i].fraud_score])
    IN  IF recent = <<>> THEN "low"
        ELSE IF total > 7000 * Len(recent) THEN "high"
        ELSE IF total > 4000 * Len(recent) THEN "medium"
        ELSE "low"

\* the profile with a fraud_history that is never cut
NextProfileUncut(current_profile, in, clock) ==
    LET current_count == current_profile.transaction_count + 1
        fraud_history == Append(current_profile.fraud_history,
                                [timestamp |-> clock,
                                 fraud_score |-> in.fraud_score,
                                 decision |-> in.decision])
    IN  [transaction_count |-> current_count,
         avg_amount |-> RoundDiv(current_profile.avg_amount * (current_count - 1)
                                 + in.amount * 100, current_count),
         fraud_history |-> fraud_history,
         risk_level |-> RiskLevel(fraud_history)]

\* lines 379-419: the profile computed from the one that was read; avg_amount
\* is kept in hundredths (round(new_avg, 2))
NextProfile(current_profile, in, clock) ==
    LET current_count == current_profile.transaction_count + 1
        new_avg == RoundDiv(current_profile.avg_amount * (current_count - 1)
                            + in.amount * 100, current_count)
        fraud_history == Append(current_profile.fraud_history,
                                [timestamp |-> clock,
                                 fraud_score |-> in.fraud_score,
                                 decision |-> in.decision])
    IN  [transaction_count |-> current_count,
         avg_amount |-> new_avg,
         fraud_history |-> LastK(fraud_history, FraudHistoryKeep),
         risk_level |-> RiskLevel(fraud_history)]

\* lines 375-419: get_user and the computation on the loaded profile; an
\* unknown user returns at once
ReadProfile(c) ==
    /\ upc[c] = "idle"
    /\ updates < MaxUpdates
    /\ \E u \in UserIds \cup {UnknownUserId}, in \in ProfileInputs :
         IF u \in DOMAIN users
         THEN /\ ureq' = [ureq EXCEPT ![c] =
                             [user_id |-> u,
                              profile |-> NextProfile(users[u], in, now)]]
              /\ upc' = [upc EXCEPT ![c] = "write"]
         ELSE UNCHANGED <<ureq, upc>>
    /\ updates' = updates + 1
    /\ now' = now + 1
    /\ UNCHANGED <<transactions, assessments, next_assessment_id, users, rules,
                   engine, pc, req, submitted, completed, probe, written,
                   lifecycle, gateway_config>>

\* line 422, update_user_risk_profile: the whole profile is written back; a
\* store failure is logged by update_user_profile and nothing is written
WriteProfile(c) ==
    /\ upc[c] = "write"
    /\ \E store_ok \in BOOLEAN :
         IF store_ok /\ ureq[c].user_id \in DOMAIN users
         THEN /\ users' = [users EXCEPT ![ureq[c].user_id] = ureq[c].profile]
              /\ written' = Append(written,
                                   [user_id |-> ureq[c].user_id,
                                    entry |-> ureq[c].profile.fraud_history[
                                                Len(ureq[c].profile.fraud_history)]])
         ELSE UNCHANGED <<users, written>>
    /\ upc' = [upc EXCEPT ![c] = "idle"]
    /\ ureq' = [ureq EXCEPT ![c] = IdleUpdate]
    /\ UNCHANGED <<transactions, assessments, next_assessment_id, rules, engine,
                   now, pc, req, submitted, completed, updates, probe,
                   lifecycle, gateway_config>>

NextUpdates ==
    \/ \E c \in Callers : ReadProfile(c)
    \/ \E c \in Callers : WriteProfile(c)

SpecProfile == Init /\ [][NextUpdates]_vars

-----------------------------------------------------------------------------
(* analyze_transaction on its own: every transaction, rule table, history  *)
(* and engine state of the bounded sets below                              *)

\* rule tables the rule endpoints can produce from the seeded one:
\* update_fraud_rule sets any weight a DECIMAL(3,2) holds, deactivate_fraud_rule
\* clears is_active
WithWeight(rs, name, w) ==
    [i \in 1..Len(rs) |->
        IF rs[i].rule_name = name THEN [rs[i] EXCEPT !.weight = w] ELSE rs[i]]

Deactivated(rs) == [i \in 1..Len(rs) |-> [rs[i] EXCEPT !.is_active = FALSE]]

\* a category stored with a capital letter; rule_logic is stored as sent
CasinoTitle == <<"C","a","s","i","n","o">>

WithLogic(rs, name, logic) ==
    [i \in 1..Len(rs) |->
        IF rs[i].rule_name = name THEN [rs[i] EXCEPT !.rule_logic = logic] ELSE rs[i]]

ScoreRules ==
    { DefaultRules,
      WithLogic(DefaultRules, "risky_merchant", [categories |-> <<CasinoTitle>>]),
      Deactivated(DefaultRules),
      WithWeight(DefaultRules, "round_amount", 0 - 5000),
      WithWeight(DefaultRules, "risky_merchant", 99900) }

\* the engine without a model, with a freshly loaded model, and with a
\* loaded model whose preprocessor buffer is one transaction short of a sequence
ScoreEngines ==
    { EngineInit(FALSE, DefaultSequenceLength),
      EngineInit(TRUE, DefaultSequenceLength),
      [EngineInit(TRUE, DefaultSequenceLength) EXCEPT
          !.transaction_buffer =
              [i \in 1..(DefaultSequenceLength - 1) |->
                  PrepareTransactionFeatures([amount |-> 100000, user_id |-> 1])]] }

\* tables of n earlier transactions of user 1, gap seconds apart
HistoryTable(n, amount, gap) ==
    [t \in 1..n |->
        [transaction_id |-> t, user_id |-> 1, amount |-> amount, currency |-> NGN,
         merchant_id |-> CoffeeShop, timestamp |-> StartOfClock - t * gap,
         transaction_status |-> "approved"]]

ScoreHistories ==
    { HistoryTable(n, a, g) : n \in {0, 1, 4, MaxHistory}, a \in {1000, 1000000},
                              g \in {60, 3600} }

CarDealer == <<"C","a","r"," ","D","e","a","l","e","r">>

\* two of the scenarios of run_test_scenarios: 'Round amount (1M)' and
\* 'Risky merchant', scored in the afternoon
ScenarioInputs ==
    { [transaction_id |-> MaxHistory + 1, user_id |-> 1, amount |-> 1000000,
       currency |-> NGN, merchant_id |-> CarDealer, timestamp |-> StartOfClock],
      [transaction_id |-> MaxHistory + 1, user_id |-> 2, amount |-> 100000,
       currency |-> NGN, merchant_id |-> CasinoResort, timestamp |-> StartOfClock] }

ScoreInputs ==
    { [transaction_id |-> MaxHistory + 1, user_id |-> 1, amount |-> a,
       currency |-> NGN, merchant_id |-> m, timestamp |-> ts] :
         a \in {100, 100000, 2000000}, m \in {CoffeeShop, CasinoResort},
         ts \in {StartOfClock, 2 * 3600} }
    \cup ScenarioInputs

InitScore ==
    /\ transactions \in ScoreHistories
    /\ assessments = <<>>
    /\ next_assessment_id = 1
    /\ users = [u \in UserIds |-> EmptyProfile]
    /\ rules \in ScoreRules
    /\ engine \in ScoreEngines
    /\ now = StartOfClock
    /\ pc = [w \in Workers |-> "idle"]
    /\ req = [w \in Workers |-> IdleReq]
    /\ submitted = 0
    /\ completed = [u \in UserIds |-> 0]
    /\ upc = [c \in Callers |-> "idle"]
    /\ ureq = [c \in Callers |-> IdleUpdate]
    /\ updates = 0
    /\ written = <<>>
    /\ probe \in { [tx |-> PrepareTransaction(d, MaxHistory + 1, StartOfClock),
                    rules_ok |-> r, history_ok |-> h,
                    rnn_raised |-> "none",
                    result |-> NoResult] :
                      d \in ScoreInputs, r \in BOOLEAN, h \in BOOLEAN }
    /\ lifecycle = "running"
    /\ gateway_config = AllConfigured

\* _get_rnn_score, lines 149-163: where the try block can raise.  It is
\* entered only with a model and a preprocessor (line 80); the preprocessor
\* raises before it appends ("features"), or the model raises on a ready
\* sequence ("predict")
RnnRaises(e, tx) ==
    {"none"}
    \cup (IF e.model_loaded /\ e.has_preprocessor THEN {"features"} ELSE {})
    \cup (IF e.model_loaded /\ e.has_preprocessor
             /\ SequenceReady(RnnBuffer(e, tx), e.sequence_length)
          THEN {"predict"} ELSE {})

\* lines 161-163: the exception is logged and 0.0 returned; the engine's
\* weights are not touched
GetRnnScoreRaised(e, raised) == e

\* one call of analyze_transaction(probe.tx, db); probe.rules_ok and
\* probe.history_ok are whether the store answers the two reads of the call,
\* probe.rnn_raised where _get_rnn_score raised
AnalyzeProbe ==
    /\ probe.result = NoResult
    /\ \E fault \in BOOLEAN, raised \in RnnRaises(engine, probe.tx) :
       \E rnn_score \in IF raised = "none" THEN RnnScores(engine, probe.tx) ELSE {0} :
         LET tx == probe.tx
             rules_ok == probe.rules_ok
             history_ok == probe.history_ok
             r == GetRuleScore(tx, rules, rules_ok)
             h == IF history_ok
                  THEN GetUserTransactionHistory(transactions, tx.user_id, 1, now)
                  ELSE <<>>
             v == GetVelocityScore(tx, h, history_ok)
         IN  /\ probe' = [probe EXCEPT
                             !.rnn_raised = raised,
                             !.result =
                                 IF fault THEN ErrorResult(tx)
                                 ELSE NormalResult(GetRnnScoreRaised(engine, raised),
                                                   tx, rnn_score, r, v)]
             /\ engine' = [GetRnnScoreRaised(engine, raised) EXCEPT
                              !.transaction_buffer =
                                  IF raised = "features" THEN @
                                  ELSE RnnBuffer(engine, probe.tx)]
    /\ UNCHANGED <<transactions, assessments, next_assessment_id, users, rules,
                   now, pc, req, submitted, completed, upc, ureq, updates, written,
                   lifecycle, gateway_config>>

NextScore == AnalyzeProbe

SpecScore == InitScore /\ [][NextScore]_vars

-----------------------------------------------------------------------------
(* Claims about the intake pipeline                                        *)

AllTxIds == TxIds \cup GeneratedIds

\* C1: the writes of one submit (transaction row, assessment row, status)
\* form one atomic unit, so every transaction row a reader can observe
\* already has its assessment and its final status.
C1_SubmitWritesAtomic ==
    \A t \in DOMAIN transactions :
        /\ Len(AssessmentsOf(assessments, t)) = 1
        /\ transactions[t].transaction_status # "pending"

\* C2: a submit that fails after its transaction was saved answers with an
\* error and leaves no transaction row behind.
C2_FailureRollsBack ==
    \A w \in Workers :
        (pc[w] = "done" /\ req[w].response.status = "error" /\ req[w].saved)
            => req[w].tx.transaction_id \notin DOMAIN transactions

\* C3: in every state, a transaction that has an assessment carries the
\* status that the assessment's decision maps to.
C3_StatusMatchesAssessment ==
    \A i \in 1..Len(assessments) :
        LET a == assessments[i]
        IN  a.transaction_id \in DOMAIN transactions
            => transactions[a.transaction_id].transaction_status
                 = StatusMapping(a.decision)

\* C4: when a submit has returned success, the persisted status of its
\* transaction is the one its decision maps to, also when the status update
\* hit a store failure.
C4_SuccessImpliesStatus ==
    \A w \in Workers :
        (pc[w] = "done" /\ req[w].response.status = "success"
         /\ req[w].tx.transaction_id \in DOMAIN transactions)
            => transactions[req[w].tx.transaction_id].transaction_status
                 = StatusMapping(req[w].fraud_result.decision)

\* C5: at most one assessment row exists for any transaction_id, in every
\* reachable state.
C5_AtMostOneAssessment ==
    \A t \in AllTxIds : Len(AssessmentsOf(assessments, t)) <= 1

\* C6: once the status of a transaction is not pending, no operation of the
\* core changes it.
C6_StatusSetOnce ==
    [][\A t \in DOMAIN transactions \cap DOMAIN transactions' :
          transactions[t].transaction_status # "pending"
            => transactions'[t].transaction_status
                 = transactions[t].transaction_status]_vars

Quiescent == \A w \in Workers : pc[w] \in {"idle", "done"}

\* C7: after N successful submits for a user the fraud_history of the user
\* has min(N, 10) entries.
C7_ProfileBound ==
    \A u \in UserIds :
        Quiescent => Len(users[u].fraud_history) = Min(completed[u], FraudHistoryKeep)

Scored(w) == pc[w] \in {"save_assessment", "update_status", "done"} /\ req[w].saved

InHistory(t, w) == \E i \in 1..Len(req[w].history) : req[w].history[i] = t

\* C8: two submits for the same user are serializable: they never score
\* each against the other's transaction.
C8_Serializable ==
    \A v, w \in Workers :
        (v # w /\ Scored(v) /\ Scored(w)
         /\ req[v].tx.user_id = req[w].tx.user_id
         /\ req[v].tx.transaction_id # req[w].tx.transaction_id)
            => ~(InHistory(req[w].tx.transaction_id, v)
                 /\ InHistory(req[v].tx.transaction_id, w))

-----------------------------------------------------------------------------
(* Claims about the risk profile                                           *)

\* C9: no committed update_user_profile loses its fraud_history entry while
\* the history keeps older entries: the entry is in the history unless ten
\* more recent ones have displaced it.
C9_NoLostUpdate ==
    \A i \in 1..Len(written) :
        LET e == written[i].entry
            h == users[written[i].user_id].fraud_history
        IN  \/ \E j \in 1..Len(h) : h[j] = e
            \/ /\ Len(h) = FraudHistoryKeep
               /\ \A j \in 1..Len(h) : h[j].timestamp > e.timestamp

-----------------------------------------------------------------------------
(* Claims about the score                                                  *)

Analyzed == probe.result # NoResult

\* C10: every result of analyze_transaction, on the normal path and on the
\* fallback path, has a fraud_score between 0 and 1 and a decision among
\* APPROVE, REVIEW, DECLINE.
C10_ScoreAndDecisionInRange ==
    Analyzed =>
        /\ 0 <= probe.result.fraud_score
        /\ probe.result.fraud_score <= Scale
        /\ probe.result.decision \in Decisions

\* reached: a normal-path result whose blend left [0, 1] before the clamp
\* (a rule of negative weight fired alone) and came out as 0
C10_Witness_NormalClamped ==
    /\ Analyzed
    /\ "error" \notin DOMAIN probe.result
    /\ probe.result.component_scores.rule_score < 0
    /\ probe.result.fraud_score = 0
    /\ probe.result.decision = "APPROVE"

\* C11: the decision and the reported fraud_score of every result agree with
\* the thresholds: DECLINE iff score >= 0.8, REVIEW iff 0.5 <= score < 0.8,
\* APPROVE iff score < 0.5.
C11_ThresholdConsistency ==
    Analyzed =>
        LET s == probe.result.fraud_score
            d == probe.result.decision
        IN  /\ (d = "DECLINE") <=> (s >= FraudThresholdHigh)
            /\ (d = "REVIEW") <=> (FraudThresholdMedium <= s /\ s < FraudThresholdHigh)
            /\ (d = "APPROVE") <=> (s < FraudThresholdMedium)

-----------------------------------------------------------------------------
(* The engine singleton over the life of the server process: construction, *)
(* the reload of startup_event, train_model, and scoring calls in between  *)

\* FraudDetectionRNN.load_model: the artifact and its metadata are read
\* ("loaded"), keras cannot read the artifact ("no_model": nothing is
\* assigned), or the model is assigned and the metadata cannot be read
\* ("no_metadata"); the last two return False
LoadOutcomes == {"loaded", "no_model", "no_metadata"}

\* the fields of engine.rnn_model after load_model
LoadModel(e, outcome) ==
    CASE outcome = "loaded" ->
           [e EXCEPT !.model_loaded = TRUE, !.model_version = "v1.0.0",
                     !.sequence_length = DefaultSequenceLength]
      [] outcome = "no_metadata" -> [e EXCEPT !.model_loaded = TRUE]
      [] OTHER -> e

\* FraudDetectionEngine(): __init__ and _load_rnn_model
Construct(outcome) ==
    IF outcome = "loaded" THEN EngineInit(TRUE, DefaultSequenceLength)
    ELSE LoadModel(EngineInit(FALSE, DefaultSequenceLength), outcome)

\* a fresh FraudDetectionPreprocessor bound to the engine's model
NewPreprocessor(e) ==
    [e EXCEPT !.has_preprocessor = TRUE, !.preprocessor_model = e.rnn_model,
              !.transaction_buffer = <<>>]

InitEngine ==
    /\ transactions = EmptyTable
    /\ assessments = <<>>
    /\ next_assessment_id = 1
    /\ users = [u \in UserIds |-> EmptyProfile]
    /\ rules = DefaultRules
    /\ engine \in {Construct(o) : o \in LoadOutcomes}
    /\ now = StartOfClock
    /\ pc = [w \in Workers |-> "idle"]
    /\ req = [w \in Workers |-> IdleReq]
    /\ submitted = 0
    /\ completed = [u \in UserIds |-> 0]
    /\ upc = [c \in Callers |-> "idle"]
    /\ ureq = [c \in Callers |-> IdleUpdate]
    /\ updates = 0
    /\ written = <<>>
    /\ probe = NoProbe
    /\ lifecycle = "constructed"
    /\ gateway_config = AllConfigured

\* startup_event, lines 78-86: the reload; the weights are not assigned
Startup ==
    /\ lifecycle = "constructed"
    /\ \E outcome \in LoadOutcomes :
         engine' = IF outcome = "loaded"
                   THEN NewPreprocessor(LoadModel(engine, outcome))
                   ELSE LoadModel(engine, outcome)
    /\ lifecycle' = "running"
    /\ UNCHANGED <<transactions, assessments, next_assessment_id, users, rules,
                   now, pc, req, submitted, completed, upc, ureq, updates,
                   written, probe,
                   gateway_config>>

MaxTrainings == 1

\* train_model up to line 434: training or saving raises and nothing is
\* installed, or the trained model (a new FraudDetectionRNN object) becomes
\* fraud_engine.rnn_model
TrainInstallModel ==
    /\ lifecycle = "running"
    /\ gateway_config = AllConfigured
    /\ engine.rnn_model < MaxTrainings
    /\ \E trained \in BOOLEAN :
         IF trained
         THEN /\ engine' = [engine EXCEPT !.model_loaded = TRUE,
                                          !.rnn_model = @ + 1,
                                          !.model_version = "v1.0.0",
                                          !.sequence_length = DefaultSequenceLength]
              /\ lifecycle' = "installing"
         ELSE UNCHANGED <<engine, lifecycle>>
    /\ UNCHANGED <<transactions, assessments, next_assessment_id, users, rules,
                   now, pc, req, submitted, completed, upc, ureq, updates,
                   written, probe,
                   gateway_config>>

\* train_model, line 435: the preprocessor of the new model is installed
TrainInstallPreprocessor ==
    /\ lifecycle = "installing"
    /\ engine' = NewPreprocessor(engine)
    /\ lifecycle' = "running"
    /\ UNCHANGED <<transactions, assessments, next_assessment_id, users, rules,
                   now, pc, req, submitted, completed, upc, ureq, updates,
                   written, probe,
                   gateway_config>>

\* the transactions scored while the server runs
EngineInputs ==
    { [transaction_id |-> 1, user_id |-> 1, amount |-> a, currency |-> NGN,
       merchant_id |-> CoffeeShop, timestamp |-> StartOfClock,
       transaction_status |-> "pending"] : a \in {100, 2000000} }

\* one call of analyze_transaction(tx, db) on the running server; observed
\* is the pair of objects the call found in the engine, the model it
\* predicts with and the model its preprocessor was made for
ScoreCall ==
    /\ lifecycle \in {"running", "installing"}
    /\ \E tx \in EngineInputs, fault \in BOOLEAN :
       \E rnn_score \in RnnScores(engine, tx) :
         LET r == GetRuleScore(tx, rules, TRUE)
             h == GetUserTransactionHistory(transactions, tx.user_id, 1, now)
             v == GetVelocityScore(tx, h, TRUE)
         IN  /\ probe' = [tx |-> tx,
                          result |-> IF fault THEN ErrorResult(tx)
                                     ELSE NormalResult(engine, tx, rnn_score, r, v),
                          observed |-> IF engine.model_loaded /\ engine.has_preprocessor
                                       THEN [used_rnn |-> TRUE,
                                             rnn_model |-> engine.rnn_model,
                                             preprocessor_model |->
                                                 engine.preprocessor_model]
                                       ELSE [used_rnn |-> FALSE]]
             /\ engine' = [engine EXCEPT !.transaction_buffer = RnnBuffer(engine, tx)]
    /\ UNCHANGED <<transactions, assessments, next_assessment_id, users, rules,
                   now, pc, req, submitted, completed, upc, ureq, updates,
                   written, lifecycle, gateway_config>>

NextEngine ==
    \/ Startup
    \/ TrainInstallModel
    \/ TrainInstallPreprocessor
    \/ ScoreCall

SpecEngine == InitEngine /\ [][NextEngine]_vars

-----------------------------------------------------------------------------
(* Claims about the engine                                                 *)

\* C12: in every state of the engine the weights sum to 1 and each of them
\* lies in [0, 1].
C12_WeightsSumToOne ==
    /\ engine.alpha + engine.beta + engine.gamma = Scale
    /\ \A x \in {engine.alpha, engine.beta, engine.gamma} : 0 <= x /\ x <= Scale

\* reached: a model installed (by the startup reload or by train_model) on
\* a server that was constructed without one, and used by a scoring call
C12_Witness_InstalledLaterAndScored ==
    /\ lifecycle = "running"
    /\ gateway_config = AllConfigured
    /\ engine.model_loaded /\ engine.has_preprocessor
    /\ engine.beta = 8000
    /\ Analyzed
    /\ Len(engine.transaction_buffer) > 0

\* C13: the weights are (0.6, 0.3, 0.1) whenever a model is loaded in the
\* engine and (0.0, 0.8, 0.2) whenever none is.
C13_WeightsTrackModel ==
    IF engine.model_loaded /\ engine.has_preprocessor
    THEN <<engine.alpha, engine.beta, engine.gamma>> = <<6000, 3000, 1000>>
    ELSE <<engine.alpha, engine.beta, engine.gamma>> = <<0, 8000, 2000>>

-----------------------------------------------------------------------------
(* Claims about failures of the scoring                                    *)

ScoringFailed(w) == "error" \in DOMAIN req[w].fraud_result

AnalysisErrorFactors ==
    <<[factor |-> "analysis_error", weight |-> 5000, triggered |-> TRUE]>>

IsFailureAssessment(a) ==
    /\ a.decision = "REVIEW"
    /\ a.fraud_score = 5000
    /\ a.confidence_level = 0
    /\ a.risk_factors = AnalysisErrorFactors

\* C14: when the scoring fails the pipeline goes on: the assessment that is
\* persisted is REVIEW with score 0.5, confidence 0 and the single factor
\* analysis_error, the status that is written is under_review, and the
\* response is a success carrying that result.
C14_ScoringFailureGoesOn ==
    [][\A w \in Workers :
         /\ (pc[w] = "analyze" /\ pc'[w] # "analyze")
               => pc'[w] = "save_assessment"
         /\ (pc[w] = "save_assessment" /\ pc'[w] = "update_status"
             /\ ScoringFailed(w))
               => /\ Len(assessments') = Len(assessments) + 1
                  /\ IsFailureAssessment(assessments'[Len(assessments')])
                  /\ assessments'[Len(assessments')].transaction_id
                        = req[w].tx.transaction_id
         /\ (pc[w] = "update_status" /\ pc'[w] = "done" /\ ScoringFailed(w))
               => LET t == req[w].tx.transaction_id
                  IN  /\ transactions' # transactions
                          => transactions'[t].transaction_status = "under_review"
                      /\ req'[w].response.status = "success"
                          => /\ req'[w].response.fraud_analysis.decision = "REVIEW"
                             /\ req'[w].response.fraud_analysis.fraud_score = 5000
                             /\ req'[w].response.assessment_id # 0]_vars

\* reached: a submit whose scoring failed has returned success, its
\* assessment is the REVIEW default and its transaction is under_review
C14_Witness_FailedScoringReviewed ==
    \E w \in Workers :
        /\ pc[w] = "done" /\ ScoringFailed(w)
        /\ req[w].response.status = "success"
        /\ req[w].tx.transaction_id \in DOMAIN transactions
        /\ transactions[req[w].tx.transaction_id].transaction_status = "under_review"
        /\ \E i \in 1..Len(assessments) :
             /\ assessments[i].assessment_id = req[w].response.assessment_id
             /\ assessments[i].transaction_id = req[w].tx.transaction_id
             /\ IsFailureAssessment(assessments[i])

StageFailed == ~probe.rules_ok \/ ~probe.history_ok

\* C15: a failure inside a scoring stage (the store raising while the rules
\* or the history are read) makes the decision REVIEW, never an APPROVE or
\* DECLINE computed from the stages that remain.
C15_StageFailureReviews ==
    (Analyzed /\ "rules_ok" \in DOMAIN probe /\ StageFailed)
        => probe.result.decision = "REVIEW"

-----------------------------------------------------------------------------
(* Gateway webhooks: POST /api/webhooks/paystack and /flutterwave           *)

Gateways == {"paystack", "flutterwave"}

\* the signature header of a request: absent, the value the gateway computes
\* with the configured secret, another ASCII value, a value with a
\* non-ASCII character
Signatures == {"missing", "expected", "wrong", "non_ascii"}

PaystackEvents == {"charge.success", "charge.failed", "transfer.success",
                   "transfer.failed"}
FlutterwaveEvents == {"charge.completed", "transfer.completed"}
WebhookEvents == PaystackEvents \cup FlutterwaveEvents \cup {"subscription.create"}

Paystack == <<"P","A","Y","S","T","A","C","K">>
PaystackTransfer == Paystack \o <<"_","T","R","A","N","S","F","E","R">>
Flutterwave == <<"F","L","U","T","T","E","R","W","A","V","E">>

\* the requests the gateways (or anyone who knows the URL) can send; the
\* amount is in kobo for Paystack
WebhookInputs ==
    [gateway : Gateways, signature : Signatures, event : WebhookEvents,
     data : {[reference |-> 1, tx_ref |-> 1, amount |-> 100000 * 100]}]

IsWebhook(input) == "gateway" \in DOMAIN input

\* _verify_paystack_signature: hmac.compare_digest raises TypeError for a
\* str with non-ASCII characters
VerifyPaystackSignature(signature, config) ==
    IF signature = "missing" \/ ~config.paystack_secret_key THEN "false"
    ELSE IF signature = "non_ascii" THEN "raise"
    ELSE IF signature = "expected" THEN "true"
    ELSE "false"

\* FlutterwaveClient.verify_webhook_signature: the header against
\* FLUTTERWAVE_WEBHOOK_HASH, which is None when the variable is not set
VerifyWebhookSignature(signature, config) ==
    IF signature = "missing" \/ ~config.encryption_key THEN "false"
    ELSE IF config.webhook_hash /\ signature = "expected" THEN "true"
    ELSE "false"

VerifySignature(wh, config) ==
    IF wh.gateway = "paystack" THEN VerifyPaystackSignature(wh.signature, config)
    ELSE VerifyWebhookSignature(wh.signature, config)

InvalidSignature == [status |-> "error", message |-> "Invalid signature"]

\* process_webhook's except branch: the message is str(e)
WebhookException ==
    [status |-> "error",
     message |-> "comparing strings with non-ASCII characters is not supported"]

\* _extract_transaction_data(data, 'paystack'); the payload has no customer
\* block, so the user is the default one
ExtractTransactionData(data) ==
    [transaction_id |-> data.reference, user_id |-> 1,
     amount |-> data.amount \div 100, currency |-> NGN, merchant_id |-> Paystack]

\* _extract_transfer_data(data, 'paystack')
ExtractTransferData(data) ==
    [transaction_id |-> data.reference, user_id |-> 1,
     amount |-> data.amount \div 100, currency |-> NGN,
     merchant_id |-> PaystackTransfer]

\* the dict _handle_flutterwave_fraud_check builds from transaction_info
FlutterwaveTransactionData(data) ==
    [transaction_id |-> data.tx_ref, user_id |-> 1, amount |-> data.amount,
     currency |-> NGN, merchant_id |-> Flutterwave]

\* the dispatch with failed charges handed to process_transaction as well
WebhookDispatchFailedScored(wh) ==
    IF wh.gateway = "paystack"
    THEN CASE wh.event = "charge.success" ->
                [intake |-> TRUE, d |-> ExtractTransactionData(wh.data)]
           [] wh.event = "transfer.success" ->
                [intake |-> TRUE, d |-> ExtractTransferData(wh.data)]
           [] wh.event = "charge.failed" ->
                [intake |-> TRUE, d |-> ExtractTransactionData(wh.data)]
           [] wh.event = "transfer.failed" ->
                [intake |-> FALSE,
                 response |-> [status |-> "success", message |-> "Failed transfer logged"]]
           [] OTHER ->
                [intake |-> FALSE,
                 response |-> [status |-> "ignored", message |-> "not handled"]]
    ELSE IF wh.event \in FlutterwaveEvents
         THEN [intake |-> TRUE, d |-> FlutterwaveTransactionData(wh.data)]
         ELSE [intake |-> FALSE,
               response |-> [status |-> "ignored", message |-> "not processed"]]

\* what the event of a verified request leads to: a transaction dict handed
\* to process_transaction, or a response without one
WebhookDispatch(wh) ==
    IF wh.gateway = "paystack"
    THEN CASE wh.event = "charge.success" ->
                [intake |-> TRUE, d |-> ExtractTransactionData(wh.data)]
           [] wh.event = "transfer.success" ->
                [intake |-> TRUE, d |-> ExtractTransferData(wh.data)]
           [] wh.event = "charge.failed" ->
                [intake |-> FALSE,
                 response |-> [status |-> "success", message |-> "Failed payment logged"]]
           [] wh.event = "transfer.failed" ->
                [intake |-> FALSE,
                 response |-> [status |-> "success", message |-> "Failed transfer logged"]]
           [] OTHER ->
                [intake |-> FALSE,
                 response |-> [status |-> "ignored", message |-> "not handled"]]
    ELSE IF wh.event \in FlutterwaveEvents
         THEN [intake |-> TRUE, d |-> FlutterwaveTransactionData(wh.data)]
         ELSE [intake |-> FALSE,
               response |-> [status |-> "ignored", message |-> "not processed"]]

\* payment_handler.process_webhook up to the call of process_transaction
\* (and, inside it, up to the first store access)
WebhookBegin(w) ==
    /\ pc[w] = "idle"
    /\ submitted < MaxSubmits
    /\ \E wh \in WebhookInputs :
         LET verdict == VerifySignature(wh, gateway_config)
             reply(r) == /\ pc' = [pc EXCEPT ![w] = "done"]
                         /\ req' = [req EXCEPT ![w] =
                                       [IdleReq EXCEPT !.input = wh, !.response = r]]
         IN  IF verdict = "raise" THEN reply(WebhookException)
             ELSE IF verdict = "false" THEN reply(InvalidSignature)
             ELSE IF ~WebhookDispatch(wh).intake THEN reply(WebhookDispatch(wh).response)
             ELSE ReceiveTransaction(w, WebhookDispatch(wh).d, wh)
    /\ submitted' = submitted + 1
    /\ UNCHANGED <<transactions, assessments, next_assessment_id, users, rules,
                   engine, now, completed, upc, ureq, updates,
                   written, probe,
                   lifecycle, gateway_config>>

InitWebhook ==
    /\ transactions = EmptyTable
    /\ assessments = <<>>
    /\ next_assessment_id = 1
    /\ users = [u \in UserIds |-> EmptyProfile]
    /\ rules = DefaultRules
    /\ engine = EngineInit(FALSE, DefaultSequenceLength)
    /\ now = StartOfClock
    /\ pc = [w \in Workers |-> "idle"]
    /\ req = [w \in Workers |-> IdleReq]
    /\ submitted = 0
    /\ completed = [u \in UserIds |-> 0]
    /\ upc = [c \in Callers |-> "idle"]
    /\ ureq = [c \in Callers |-> IdleUpdate]
    /\ updates = 0
    /\ written = <<>>
    /\ probe = NoProbe
    /\ lifecycle = "running"
    /\ gateway_config \in GatewayConfigs

NextWebhook ==
    \/ \E w \in Workers : WebhookBegin(w)
    \/ \E w \in Workers : SaveTransaction(w)
    \/ \E w \in Workers : Analyze(w)
    \/ \E w \in Workers : SaveAssessment(w)
    \/ \E w \in Workers : UpdateStatus(w)
    \/ \E w \in Workers : Return(w)

SpecWebhook == InitWebhook /\ [][NextWebhook]_vars

\* a request that the specification counts as failing verification: the
\* header is absent or is not the expected value, or the gateway's secret
\* is not configured
FailsVerification(wh, config) ==
    \/ wh.signature # "expected"
    \/ wh.gateway = "paystack" /\ ~config.paystack_secret_key
    \/ wh.gateway = "flutterwave" /\ ~config.webhook_hash

\* C16: a webhook request whose signature fails verification is answered
\* with {status: error, message: 'Invalid signature'} and never enters
\* Intake (its thread goes from idle straight to the response, so no store
\* write is made for it), for both gateways and every event type.
C16_BadSignatureRejected ==
    \A w \in Workers :
        (pc[w] # "idle" /\ IsWebhook(req[w].input)
         /\ FailsVerification(req[w].input, gateway_config))
        => /\ pc[w] = "done"
           /\ req[w].tx = NoTx
           /\ req[w].response = InvalidSignature

\* C16, the part that holds: such a request never enters Intake
C16_BadSignatureNoIntake ==
    \A w \in Workers :
        (pc[w] # "idle" /\ IsWebhook(req[w].input)
         /\ FailsVerification(req[w].input, gateway_config))
        => /\ pc[w] = "done"
           /\ req[w].tx = NoTx
           /\ req[w].response.status = "error"
           /\ "message" \in DOMAIN req[w].response

-----------------------------------------------------------------------------
(* Intake of a JSON body: validate_transaction on untyped values            *)

\* JSON values as POST /api/transactions receives them (Dict[str, Any]):
\* numbers in tenths, strings, null; Absent marks a key the body lacks
JsonNum(n) == [t |-> "num", tenths |-> n * 10]
JsonTenths(n) == [t |-> "num", tenths |-> n]
JsonStr(s) == [t |-> "str", s |-> s]
JsonNull == [t |-> "null"]
Absent == [t |-> "absent"]

UnparsableIp == "999.1.1"
NotANumber == <<"a","b","c">>
Xyz == <<"X","Y","Z">>
GoodEmail == <<"a","@","b">>
BadEmail == <<"a","b">>

JsonAmounts ==
    {Absent, JsonNull, JsonStr(NotANumber), JsonNum(0), JsonNum(-1), JsonNum(100000),
     JsonNum(MaxAmount), JsonTenths(MaxAmount * 10 + 1), JsonNum(MaxAmount + 1)}
JsonUserIds ==
    {Absent, JsonNull, JsonStr(NotANumber), JsonNum(1), JsonNum(0), JsonNum(-1),
     JsonTenths(3 * 5), JsonTenths(5)}
JsonCurrencies == {Absent, JsonNull, JsonStr(NGN), JsonStr(Lower(NGN)), JsonStr(Xyz)}
JsonIps == {Absent, JsonStr("192.168.1.100"), JsonStr(UnparsableIp), JsonStr("")}
JsonEmails == {Absent, JsonStr(GoodEmail), JsonStr(BadEmail), JsonStr(<<>>)}

\* the body with the keys whose value is not Absent
JsonBody(a, u, c, i, e) ==
    LET full == [amount |-> a, user_id |-> u, currency |-> c, ip_address |-> i,
                 email |-> e]
    IN  [k \in {f \in DOMAIN full : full[f] # Absent} |-> full[k]]

JsonBodies ==
    {JsonBody(a, u, c, i, e) : a \in JsonAmounts, u \in JsonUserIds,
                               c \in JsonCurrencies, i \in JsonIps, e \in JsonEmails}

\* int(v): truncation toward zero for a number; ValueError for a string
\* that is not a numeral, TypeError for None
PyInt(v) ==
    IF v.t = "num"
    THEN [ok |-> TRUE,
          v |-> IF v.tenths >= 0 THEN v.tenths \div 10 ELSE -((-v.tenths) \div 10)]
    ELSE [ok |-> FALSE, v |-> 0]

\* float(v), in tenths
PyFloat(v) ==
    IF v.t = "num" THEN [ok |-> TRUE, tenths |-> v.tenths]
    ELSE [ok |-> FALSE, tenths |-> 0]

\* dict.get(key, default)
JsonGet(body, key, default) == IF key \in DOMAIN body THEN body[key] ELSE default

\* validate_transaction on a JSON body: the reasons it collects, and whether
\* it raises instead of returning (str.upper on a non-string currency;
\* ip_address() raises ValueError, which "except AddressValueError" does
\* not catch)
ValidateJson(body) ==
    LET amount == PyFloat(JsonGet(body, "amount", JsonNum(0)))
        currency == JsonGet(body, "currency", JsonStr(<<>>))
        user_id == PyInt(JsonGet(body, "user_id", JsonNum(0)))
        ip_addr == JsonGet(body, "ip_address", JsonNull)
        email == JsonGet(body, "email", JsonNull)
        required ==
            {f \in {"amount", "user_id", "currency"} :
                f \notin DOMAIN body \/ body[f] = JsonNull}
    IN  [raised |-> \/ currency.t # "str"
                    \/ ip_addr.t = "str" /\ ip_addr.s # "" /\ ip_addr.s \notin ParsableIps,
         errors |->
            {<<"Missing required field", f>> : f \in required}
            \cup (IF ~amount.ok THEN {<<"Invalid amount format">>}
                  ELSE IF amount.tenths <= 0 THEN {<<"Amount must be greater than 0">>}
                  ELSE IF amount.tenths > MaxAmount * 10
                       THEN {<<"Amount exceeds maximum limit">>}
                  ELSE {})
            \cup (IF currency.t = "str" /\ Upper(currency.s) \notin ValidCurrencies
                  THEN {<<"Unsupported currency">>} ELSE {})
            \cup (IF ~user_id.ok THEN {<<"User ID must be a number">>}
                  ELSE IF user_id.v <= 0 THEN {<<"Invalid user ID">>}
                  ELSE {})
            \cup (IF email.t = "str" /\ email.s # <<>>
                     /\ ~(\E k \in 1..Len(email.s) : email.s[k] = "@")
                  THEN {<<"Invalid email format">>} ELSE {})]

JsonValid(body) == ~ValidateJson(body).raised /\ ValidateJson(body).errors = {}

\* the values _prepare_transaction converts: int(user_id), float(amount)
\* (whole for every accepted amount of JsonAmounts), the currency string
JsonConverted(body) ==
    [user_id |-> PyInt(body.user_id).v,
     amount |-> PyFloat(body.amount).tenths \div 10,
     currency |-> body.currency.s]

IsJsonSubmit(input) == "body" \in DOMAIN input

\* receive_transaction on the JSON body under test, up to the first store
\* access
BeginJson(w) ==
    /\ pc[w] = "idle"
    /\ submitted = 0
    /\ IsJsonSubmit(probe)
    /\ IF ~JsonValid(probe.body)
       THEN /\ pc' = [pc EXCEPT ![w] = "done"]
            /\ req' = [req EXCEPT ![w] =
                          [IdleReq EXCEPT !.input = probe,
                                          !.response = ErrorResponse(NoTx, "validation")]]
       ELSE \E g \in GeneratedIds :
            /\ pc' = [pc EXCEPT ![w] = "save_transaction"]
            /\ req' = [req EXCEPT ![w] =
                          [IdleReq EXCEPT !.input = probe,
                                          !.tx = PrepareTransaction(
                                                     JsonConverted(probe.body), g, now)]]
    /\ submitted' = submitted + 1
    /\ UNCHANGED <<transactions, assessments, next_assessment_id, users, rules,
                   engine, now, completed, upc, ureq, updates,
                   written, probe,
                   lifecycle, gateway_config>>

InitIntake ==
    /\ transactions = EmptyTable
    /\ assessments = <<>>
    /\ next_assessment_id = 1
    /\ users = [u \in UserIds |-> EmptyProfile]
    /\ rules = DefaultRules
    /\ engine = EngineInit(FALSE, DefaultSequenceLength)
    /\ now = StartOfClock
    /\ pc = [w \in Workers |-> "idle"]
    /\ req = [w \in Workers |-> IdleReq]
    /\ submitted = 0
    /\ completed = [u \in UserIds |-> 0]
    /\ upc = [c \in Callers |-> "idle"]
    /\ ureq = [c \in Callers |-> IdleUpdate]
    /\ updates = 0
    /\ written = <<>>
    /\ probe \in {[body |-> b] : b \in JsonBodies}
    /\ lifecycle = "running"
    /\ gateway_config = AllConfigured

NextIntake ==
    \/ \E w \in Workers : BeginJson(w)
    \/ \E w \in Workers : SaveTransaction(w)
    \/ \E w \in Workers : Analyze(w)
    \/ \E w \in Workers : SaveAssessment(w)
    \/ \E w \in Workers : UpdateStatus(w)
    \/ \E w \in Workers : Return(w)

SpecIntake == InitIntake /\ [][NextIntake]_vars

IsPositiveInteger(v) == v.t = "num" /\ v.tenths > 0 /\ v.tenths % 10 = 0

\* the validation rules as the specification lists them; an empty
\* ip_address or email counts as not present
ViolatesRule(body) ==
    \/ \E f \in {"amount", "user_id", "currency"} :
           f \notin DOMAIN body \/ body[f] = JsonNull
    \/ body.amount.t # "num" \/ body.amount.tenths <= 0
    \/ body.amount.tenths > MaxAmount * 10
    \/ body.currency.t # "str" \/ Upper(body.currency.s) \notin ValidCurrencies
    \/ ~IsPositiveInteger(body.user_id)
    \/ "ip_address" \in DOMAIN body /\ body.ip_address.s # ""
         /\ body.ip_address.s \notin ParsableIps
    \/ "email" \in DOMAIN body /\ body.email.s # <<>>
         /\ ~(\E k \in 1..Len(body.email.s) : body.email.s[k] = "@")

StoreUntouched == transactions = EmptyTable /\ assessments = <<>>

\* C17: a submit whose input violates a validation rule (missing amount,
\* user_id or currency; amount <= 0 or > 5*10^7; currency outside the
\* allow-list; user_id not a positive integer; unparseable ip_address;
\* email without '@') returns status error and writes nothing, and an
\* otherwise valid input with amount exactly 5*10^7 is accepted.
C17_InvalidInputRejected ==
    \A w \in Workers :
        (pc[w] # "idle" /\ IsJsonSubmit(req[w].input))
        => /\ ViolatesRule(req[w].input.body)
              => /\ pc[w] = "done"
                 /\ req[w].response.status = "error"
                 /\ StoreUntouched
           /\ (~ViolatesRule(req[w].input.body)
               /\ req[w].input.body.amount = JsonNum(MaxAmount))
              => req[w].tx # NoTx

\* C17 with the user_id rule read as the code checks it (int(user_id) > 0)
C17_RejectedAsCoded ==
    \A w \in Workers :
        (pc[w] # "idle" /\ IsJsonSubmit(req[w].input))
        => /\ (ViolatesRule(req[w].input.body)
               /\ ~(PyInt(JsonGet(req[w].input.body, "user_id", JsonNum(0))).v > 0
                    /\ ~IsPositiveInteger(JsonGet(req[w].input.body, "user_id", JsonNull))))
              => /\ pc[w] = "done"
                 /\ req[w].response.status = "error"
                 /\ StoreUntouched
           /\ (~ViolatesRule(req[w].input.body)
               /\ req[w].input.body.amount = JsonNum(MaxAmount))
              => req[w].tx # NoTx

-----------------------------------------------------------------------------
(* Retrieval: TransactionProcessor.get_transaction_details                  *)

None == [found |-> FALSE]

\* the record returned for transaction t over the tables T and A: the row's
\* columns and, when get_fraud_assessment finds one, the first assessment
\* row of the transaction
GetTransactionDetails(T, A, t) ==
    IF t \notin DOMAIN T THEN None
    ELSE LET row == T[t]
             found == AssessmentsOf(A, t)
             result == [found |-> TRUE,
                        transaction_id |-> row.transaction_id,
                        user_id |-> row.user_id,
                        amount |-> row.amount,
                        currency |-> row.currency,
                        merchant_id |-> row.merchant_id,
                        transaction_status |-> row.transaction_status]
         IN  IF found = <<>> THEN result
             ELSE [k \in DOMAIN result \cup {"fraud_assessment"} |->
                      IF k = "fraud_assessment" THEN Head(found) ELSE result[k]]

\* the details of t agree with the submitted dict d (the currency in upper
\* case, as Intake stores it) and carry the assessment with the given id
RoundTrips(details, d, assessment_id) ==
    /\ details.found
    /\ details.amount = d.amount
    /\ details.user_id = d.user_id
    /\ details.currency = Upper(d.currency)
    /\ "merchant_id" \in DOMAIN d => details.merchant_id = d.merchant_id
    /\ "fraud_assessment" \in DOMAIN details
    /\ details.fraud_assessment.assessment_id = assessment_id

-----------------------------------------------------------------------------
(* The documented scenarios, scored with the seeded rules and no model      *)

\* the scenario transaction d was scored on the normal path by an engine
\* without a model, over the seeded rules, for a user with no transaction in
\* the last day, with the store answering
ScenarioScored(d) ==
    /\ Analyzed
    /\ "rules_ok" \in DOMAIN probe
    /\ probe.rules_ok /\ probe.history_ok
    /\ "error" \notin DOMAIN probe.result
    /\ probe.tx.amount = d.amount
    /\ probe.tx.merchant_id = d.merchant_id
    /\ probe.tx.user_id = d.user_id
    /\ probe.tx.timestamp = StartOfClock
    /\ rules = DefaultRules
    /\ ~engine.model_loaded
    /\ GetUserTransactionHistory(transactions, d.user_id, 1, now) = <<>>

TriggeredFactors ==
    {probe.result.risk_factors[i].factor : i \in 1..Len(probe.result.risk_factors)}

RoundVeryHigh == [user_id |-> 1, amount |-> 1000000, merchant_id |-> CarDealer]
RiskyMerchant == [user_id |-> 2, amount |-> 100000, merchant_id |-> CasinoResort]

\* C19: scenario 'Round + very-high'. With the seeded rules and no model, the
\* transaction of amount 1000000 at 'Car Dealer' triggers round_amount,
\* very_high_amount and high_amount, the weight sum 1.4 is clamped to a
\* rule score of 1.0, the final score is 0.8 and the decision is DECLINE.
C19_RoundVeryHighDeclined ==
    ScenarioScored(RoundVeryHigh) =>
        /\ TriggeredFactors = {"round_amount", "very_high_amount", "high_amount"}
        /\ probe.result.component_scores.rule_score = Scale
        /\ probe.result.fraud_score = 8000
        /\ probe.result.decision = "DECLINE"

\* what the engine answers in that scenario: high_amount and round_amount
\* only, rule score 0.9, final score 0.72, REVIEW
C19_AsCoded ==
    ScenarioScored(RoundVeryHigh) =>
        /\ TriggeredFactors = {"round_amount", "high_amount"}
        /\ probe.result.component_scores.rule_score = 9000
        /\ probe.result.fraud_score = 7200
        /\ probe.result.decision = "REVIEW"

\* C20: scenario 'Risky merchant'. With the seeded rules and no model, the
\* transaction {user_id 2, amount 100000, merchant_id 'Casino Resort'}
\* triggers only risky_merchant (weight 0.4), the final score is 0.32 and
\* the decision is APPROVE.
C20_RiskyMerchantApproved ==
    ScenarioScored(RiskyMerchant) =>
        /\ TriggeredFactors = {"risky_merchant"}
        /\ probe.result.fraud_score = 3200
        /\ probe.result.decision = "APPROVE"

\* what the engine answers in that scenario: round_amount and
\* risky_merchant, rule score 0.7, final score 0.56, REVIEW
C20_AsCoded ==
    ScenarioScored(RiskyMerchant) =>
        /\ TriggeredFactors = {"round_amount", "risky_merchant"}
        /\ probe.result.component_scores.rule_score = 7000
        /\ probe.result.fraud_score = 5600
        /\ probe.result.decision = "REVIEW"

-----------------------------------------------------------------------------
(* A burst of submits handled one after the other, the store answering      *)

BurstSize == 3 + 4
BurstUser == 3
\* seconds between two submits of the burst (the whole burst within a minute)
BurstGaps == {1, 9}
MerchantX == <<"x">>

BurstInput(k) ==
    [transaction_id |-> k, user_id |-> BurstUser, amount |-> 100000,
     currency |-> NGN, merchant_id |-> MerchantX]

\* one call of receive_transaction(d) at time clock run to its end with no
\* other request in between and every store call going through:
\* save_transaction, analyze_transaction (no model: the rnn score is 0),
\* save_fraud_assessment, _update_transaction_status
RunSequential(d, generated_id, clock) ==
    LET tx == PrepareTransaction(d, generated_id, clock)
        saved == InsertTransaction(transactions, tx)
        r == GetRuleScore(tx, rules, TRUE)
        h == GetUserTransactionHistory(saved, tx.user_id, 1, clock)
        v == GetVelocityScore(tx, h, TRUE)
        result == NormalResult(engine, tx, 0, r, v)
    IN  /\ ValidateTransaction(d)
        /\ CanInsertTransaction(transactions, tx)
        /\ RnnScores(engine, tx) = {0}
        /\ now' = clock
        /\ transactions' = UpdateStatusWrite(saved, tx.transaction_id,
                                             result.decision, TRUE)
        /\ assessments' = Append(assessments,
                                 AssessmentRow(next_assessment_id, result))
        /\ next_assessment_id' = next_assessment_id + 1
        /\ probe' = [tx |-> tx, result |-> result, history |-> h]
        /\ submitted' = submitted + 1
        /\ completed' = [completed EXCEPT ![tx.user_id] = @ + 1]
        /\ UNCHANGED <<users, rules, engine, pc, req, upc, ureq, updates, written,
                       lifecycle, gateway_config>>

\* the next submit of the burst
SubmitSequential ==
    /\ submitted < BurstSize
    /\ \E gap \in BurstGaps :
         RunSequential(BurstInput(submitted + 1), submitted + 1, now + gap)

InitBurst ==
    /\ transactions = EmptyTable
    /\ assessments = <<>>
    /\ next_assessment_id = 1
    /\ users = [u \in {BurstUser} |-> EmptyProfile]
    /\ rules = DefaultRules
    /\ engine = EngineInit(FALSE, DefaultSequenceLength)
    /\ now = StartOfClock
    /\ pc = [w \in Workers |-> "idle"]
    /\ req = [w \in Workers |-> IdleReq]
    /\ submitted = 0
    /\ completed = [u \in {BurstUser} |-> 0]
    /\ upc = [c \in Callers |-> "idle"]
    /\ ureq = [c \in Callers |-> IdleUpdate]
    /\ updates = 0
    /\ written = <<>>
    /\ probe = NoProbe
    /\ lifecycle = "running"
    /\ gateway_config = AllConfigured

NextBurst == SubmitSequential

SpecBurst == InitBurst /\ [][NextBurst]_vars

\* the velocity factor of the given name in the last result, 0 when absent
LastFactorWeight(name) ==
    LET f == probe.result.risk_factors
        hits == {i \in 1..Len(f) : f[i].factor = name}
    IN  IF hits = {} THEN 0 ELSE f[CHOOSE i \in hits : TRUE].weight

\* C21: scenario 'Velocity burst'. On the seventh of seven sequential submits
\* of user 3 within a minute (amount 100000, merchant 'x', seeded rules, no
\* model) the frequency contribution is 0.2, the rapid-fire contribution is
\* 0.2, the amount divergence is 0, velocity_score is 0.4, the final score
\* is 0.2 * 0.4 = 0.08 and the decision is APPROVE.
C21_VelocityBurst ==
    submitted = BurstSize =>
        /\ LastFactorWeight("high_frequency") = 2000
        /\ LastFactorWeight("unusual_time_pattern") = 2000
        /\ LastFactorWeight("unusual_amount_pattern") = 0
        /\ probe.result.component_scores.velocity_score = 4000
        /\ probe.result.fraud_score = 800
        /\ probe.result.decision = "APPROVE"

\* what the engine answers on the seventh submit: the velocity part as
\* stated, and round_amount (0.3) triggered by the amount 100000, so the
\* final score is 0.8 * 0.3 + 0.2 * 0.4 = 0.32
C21_AsCoded ==
    submitted = BurstSize =>
        /\ LastFactorWeight("high_frequency") = 2000
        /\ LastFactorWeight("unusual_time_pattern") = 2000
        /\ LastFactorWeight("unusual_amount_pattern") = 0
        /\ probe.result.component_scores.velocity_score = 4000
        /\ probe.result.component_scores.rule_score = 3000
        /\ probe.result.fraud_score = 3200
        /\ probe.result.decision = "APPROVE"

-----------------------------------------------------------------------------
(* Claims about the rule score                                              *)

\* the call read the rules and went down the normal path
RulesScored ==
    /\ Analyzed
    /\ "rules_ok" \in DOMAIN probe
    /\ probe.rules_ok
    /\ "error" \notin DOMAIN probe.result

\* the active rules of the table rs that trigger on tx, in table order
TriggeredRules(tx, rs) ==
    SelectSeq(GetActiveFraudRules(rs), LAMBDA r : EvaluateRule(tx, r)[1])

WeightSum(rs) == SumSeq([i \in 1..Len(rs) |-> rs[i].weight])

\* C22: rule_score is min(sum of the weights of the triggered active rules,
\* 1.0) for every transaction and every rule set, so it never exceeds 1.0
\* when it is combined into the final score.
C22_RuleScoreClamped ==
    RulesScored =>
        /\ probe.result.component_scores.rule_score
             = Min(WeightSum(TriggeredRules(probe.tx, rules)), Scale)
        /\ probe.result.component_scores.rule_score <= Scale

\* reached: triggered weights that add up to more than 1.0, scored as 1.0
C22_Witness_SumAboveOne ==
    /\ RulesScored
    /\ WeightSum(TriggeredRules(probe.tx, rules)) > Scale
    /\ probe.result.component_scores.rule_score = Scale

-----------------------------------------------------------------------------
(* The rule table under administration while a scoring call reads it        *)

MaxRuleOps == 2

\* rule_data of POST /api/admin/fraud-rules: any name, logic and weight that
\* the columns hold (weight is DECIMAL(3,2), negative values included)
RuleInputs ==
    { [rule_name |-> "high_amount", is_active |-> a, weight |-> w,
       rule_logic |-> [threshold |-> 1000]] :
          a \in BOOLEAN, w \in {0 - 5000, 3000} }

\* rule_data of update_fraud_rule
RuleUpdates ==
    {[is_active |-> b] : b \in BOOLEAN} \cup {[weight |-> w] : w \in {0 - 5000, 3000}}

RuleTransactions ==
    { PrepareTransaction([transaction_id |-> 1, user_id |-> 1, amount |-> a,
                          currency |-> NGN, merchant_id |-> m], 1, StartOfClock) :
         a \in {2000}, m \in {CoffeeShop, CasinoResort} }

NoRuleCall == [stage |-> "start", table_at_read |-> <<>>, snapshot |-> <<>>, i |-> 1,
               total |-> 0, triggered |-> <<>>]

\* DatabaseManager.create_fraud_rule: the row is added and committed
CreateFraudRule ==
    /\ updates < MaxRuleOps
    /\ \E data \in RuleInputs :
         rules' = Append(rules,
                     [rule_id |-> Len(rules) + 1, rule_name |-> data.rule_name,
                      is_active |-> data.is_active, weight |-> data.weight,
                      rule_logic |-> data.rule_logic])
    /\ updates' = updates + 1
    /\ UNCHANGED <<transactions, assessments, next_assessment_id, users, engine, now,
                   pc, req, submitted, completed, upc, ureq, written, probe,
                   lifecycle, gateway_config>>

\* setattr(rule, key, value) for each key of rule_data
ApplyRuleData(rule, data) ==
    [k \in DOMAIN rule |-> IF k \in DOMAIN data THEN data[k] ELSE rule[k]]

\* DatabaseManager.update_fraud_rule (returns False for an unknown rule_id)
UpdateFraudRule ==
    /\ updates < MaxRuleOps
    /\ \E id \in 1..(Len(rules) + 1), data \in RuleUpdates :
         rules' = [i \in 1..Len(rules) |->
                      IF rules[i].rule_id = id THEN ApplyRuleData(rules[i], data)
                      ELSE rules[i]]
    /\ updates' = updates + 1
    /\ UNCHANGED <<transactions, assessments, next_assessment_id, users, engine, now,
                   pc, req, submitted, completed, upc, ureq, written, probe,
                   lifecycle, gateway_config>>

\* DatabaseManager.deactivate_fraud_rule
DeactivateFraudRule ==
    /\ updates < MaxRuleOps
    /\ \E id \in 1..Len(rules) :
         rules' = [i \in 1..Len(rules) |->
                      IF rules[i].rule_id = id
                      THEN ApplyRuleData(rules[i], [is_active |-> FALSE])
                      ELSE rules[i]]
    /\ updates' = updates + 1
    /\ UNCHANGED <<transactions, assessments, next_assessment_id, users, engine, now,
                   pc, req, submitted, completed, upc, ureq, written, probe,
                   lifecycle, gateway_config>>

\* _get_rule_score, line 169: the one query of the call; table_at_read keeps
\* the table as it was at that instant
ReadRules ==
    /\ probe.call.stage = "start"
    /\ probe' = [probe EXCEPT !.call.stage = "loop",
                              !.call.table_at_read = rules,
                              !.call.snapshot = GetActiveFraudRules(rules)]
    /\ UNCHANGED <<transactions, assessments, next_assessment_id, users, rules,
                   engine, now, pc, req, submitted, completed, upc, ureq, updates,
                   written, lifecycle, gateway_config>>

\* the rule an iteration evaluates, had the loop gone back to the table
LoopRuleReread(call, rs) ==
    IF call.i <= Len(GetActiveFraudRules(rs)) THEN GetActiveFraudRules(rs)[call.i]
    ELSE call.snapshot[call.i]

\* the rule an iteration of the loop evaluates: the i-th object of the list
\* the query returned
LoopRule(call, rs) == call.snapshot[call.i]

\* lines 174-185: one iteration of the loop over the rules
EvaluateNextRule ==
    /\ probe.call.stage = "loop"
    /\ probe.call.i <= Len(probe.call.snapshot)
    /\ LET rule == LoopRule(probe.call, rules)
           e == EvaluateRule(probe.tx, rule)
       IN  probe' = [probe EXCEPT
                       !.call.i = @ + 1,
                       !.call.total = IF e[1] THEN @ + e[2] ELSE @,
                       !.call.triggered =
                           IF e[1]
                           THEN Append(@, [factor |-> rule.rule_name,
                                           weight |-> rule.weight,
                                           triggered |-> TRUE])
                           ELSE @]
    /\ UNCHANGED <<transactions, assessments, next_assessment_id, users, rules,
                   engine, now, pc, req, submitted, completed, upc, ureq, updates,
                   written, lifecycle, gateway_config>>

\* lines 187-190: the normalised score and the triggered rules are returned
ReturnRuleScore ==
    /\ probe.call.stage = "loop"
    /\ probe.call.i > Len(probe.call.snapshot)
    /\ probe' = [probe EXCEPT
                    !.call.stage = "done",
                    !.result = [score |-> NormalizeRuleScore(probe.call.total),
                                factors |-> probe.call.triggered]]
    /\ UNCHANGED <<transactions, assessments, next_assessment_id, users, rules,
                   engine, now, pc, req, submitted, completed, upc, ureq, updates,
                   written, lifecycle, gateway_config>>

InitRules ==
    /\ transactions = EmptyTable
    /\ assessments = <<>>
    /\ next_assessment_id = 1
    /\ users = [u \in UserIds |-> EmptyProfile]
    /\ rules = DefaultRules
    /\ engine = EngineInit(FALSE, DefaultSequenceLength)
    /\ now = StartOfClock
    /\ pc = [w \in Workers |-> "idle"]
    /\ req = [w \in Workers |-> IdleReq]
    /\ submitted = 0
    /\ completed = [u \in UserIds |-> 0]
    /\ upc = [c \in Callers |-> "idle"]
    /\ ureq = [c \in Callers |-> IdleUpdate]
    /\ updates = 0
    /\ written = <<>>
    /\ probe \in {[tx |-> tx, result |-> NoResult, call |-> NoRuleCall] :
                     tx \in RuleTransactions}
    /\ lifecycle = "running"
    /\ gateway_config = AllConfigured

NextRules ==
    \/ CreateFraudRule
    \/ UpdateFraudRule
    \/ DeactivateFraudRule
    \/ ReadRules
    \/ EvaluateNextRule
    \/ ReturnRuleScore

SpecRules == InitRules /\ [][NextRules]_vars

RuleScoreOf(tx, rs) == GetRuleScore(tx, rs, TRUE).score

\* the step adds one active rule, or enables one rule, that triggers on tx
AddsTriggeringRule(tx, before, after) ==
    \/ /\ Len(after) = Len(before) + 1
       /\ SubSeq(after, 1, Len(before)) = before
       /\ after[Len(after)].is_active
       /\ EvaluateRule(tx, after[Len(after)])[1]
    \/ /\ Len(after) = Len(before)
       /\ \E i \in 1..Len(before) :
            /\ ~before[i].is_active
            /\ after = [before EXCEPT ![i].is_active = TRUE]
            /\ EvaluateRule(tx, after[i])[1]

\* C23: rule-score monotonicity. Creating or enabling one more rule that
\* triggers on a transaction never makes the transaction's rule_score
\* smaller than it was without that rule, for every weight that
\* create_fraud_rule accepts.
C23_RuleScoreMonotone ==
    [][AddsTriggeringRule(probe.tx, rules, rules')
       => RuleScoreOf(probe.tx, rules') >= RuleScoreOf(probe.tx, rules)]_vars

\* the same for rules whose weight is not negative
C23_MonotoneForNonNegativeWeights ==
    [][(AddsTriggeringRule(probe.tx, rules, rules')
        /\ \A i \in 1..Len(rules') : rules'[i].weight >= 0)
       => RuleScoreOf(probe.tx, rules') >= RuleScoreOf(probe.tx, rules)]_vars

\* C29: a scoring call sees a consistent rule set. Every rule evaluated in
\* one call of _get_rule_score comes from the single read of the active
\* rules: the score and the triggered rules the call returns are those of
\* the table as it was at that read, whatever was created, updated or
\* deactivated while the call was running.
C29_RulesFromOneRead ==
    probe.call.stage = "done"
        => probe.result = GetRuleScore(probe.tx, probe.call.table_at_read, TRUE)

\* reached: a call that returned while the table had changed since its read
\* in a way that changes the score of its transaction
C29_Witness_ChangedDuringCall ==
    /\ probe.call.stage = "done"
    /\ rules # probe.call.table_at_read
    /\ GetRuleScore(probe.tx, rules, TRUE) # probe.result

-----------------------------------------------------------------------------
(* Submits that carry their own timestamp, and the window of the history    *)

MaxStamped == 3

\* seconds from the moment of the submit to the timestamp the caller
\* supplies: two days back, an hour back, an hour ahead
StampOffsets == {0 - 2 * DaySeconds, 0 - 3600, 3600}

\* seconds between two submits
StampGaps == {60, DaySeconds}

StampedInputs(k, clock) ==
    {[transaction_id |-> k, user_id |-> 1, amount |-> 100, currency |-> NGN,
      merchant_id |-> CoffeeShop]}
    \cup {[transaction_id |-> k, user_id |-> 1, amount |-> 100, currency |-> NGN,
           merchant_id |-> CoffeeShop, timestamp |-> clock + o] : o \in StampOffsets}

SubmitStamped ==
    /\ submitted < MaxStamped
    /\ \E gap \in StampGaps :
       \E d \in StampedInputs(submitted + 1, now + gap) :
         RunSequential(d, submitted + 1, now + gap)

NextStamped == SubmitStamped

SpecStamped == Init /\ [][NextStamped]_vars

\* the user's persisted transactions with clock - 1 day <= timestamp <= clock,
\* newest first
WindowOfLastDay(T, user_id, clock) ==
    LET ids == {t \in DOMAIN T : /\ T[t].user_id = user_id
                                 /\ clock - DaySeconds <= T[t].timestamp
                                 /\ T[t].timestamp <= clock}
        rows == OrderDesc(T, ids)
    IN  [i \in 1..Len(rows) |->
            [transaction_id |-> rows[i].transaction_id,
             amount |-> rows[i].amount,
             timestamp |-> rows[i].timestamp]]

\* C24: the history used for velocity holds exactly the user's persisted
\* transactions with now - 1 day <= timestamp <= now, newest first; a
\* transaction persisted with a caller-supplied timestamp later than now is
\* not in the window.
C24_HistoryWindow ==
    "history" \in DOMAIN probe
        => probe.history = WindowOfLastDay(transactions, probe.tx.user_id, now)

\* what the store returns: the lower bound holds for every row of the
\* history and every persisted row of the user above it is in the history
C24_LowerBoundOnly ==
    "history" \in DOMAIN probe
        => /\ \A i \in 1..Len(probe.history) :
                probe.history[i].timestamp >= now - DaySeconds
           /\ \A t \in DOMAIN transactions :
                (transactions[t].user_id = probe.tx.user_id
                 /\ transactions[t].timestamp >= now - DaySeconds)
                => \E i \in 1..Len(probe.history) :
                       probe.history[i].transaction_id = t
           /\ \A i \in 1..(Len(probe.history) - 1) :
                probe.history[i].timestamp >= probe.history[i + 1].timestamp

-----------------------------------------------------------------------------
(* The preprocessor of the engine, one call of add_transaction at a time    *)

MaxAdds == 5
SequenceLengths == {1, 2, 3}

\* the transactions the scoring calls hand to the preprocessor
BufferInputs ==
    {[amount |-> a, user_id |-> u] : a \in {100, 200}, u \in {1, 2}}

NotReady == [ready |-> FALSE]

\* what add_transaction returns for the buffer it leaves: the rows of the
\* buffer, oldest first, when there are sequence_length of them, else None
AddTransactionReturn(buffer, seq_len) ==
    IF SequenceReady(buffer, seq_len) THEN [ready |-> TRUE, rows |-> buffer]
    ELSE NotReady

\* _get_rnn_score: preprocessor.add_transaction(transaction) run to its end;
\* probe keeps every transaction added so far and what the call returned
AddTransaction ==
    /\ Len(probe.added) < MaxAdds
    /\ \E tx \in BufferInputs :
         LET b == AddTransactionBuffer(engine.transaction_buffer, tx,
                                       engine.sequence_length)
         IN  /\ engine' = [engine EXCEPT !.transaction_buffer = b]
             /\ probe' = [probe EXCEPT
                             !.added = Append(@, tx),
                             !.returned = AddTransactionReturn(b, engine.sequence_length)]
    /\ UNCHANGED <<transactions, assessments, next_assessment_id, users, rules, now,
                   pc, req, submitted, completed, upc, ureq, updates, written,
                   lifecycle, gateway_config>>

InitPreprocessor ==
    /\ transactions = EmptyTable
    /\ assessments = <<>>
    /\ next_assessment_id = 1
    /\ users = [u \in UserIds |-> EmptyProfile]
    /\ rules = DefaultRules
    /\ engine \in {EngineInit(TRUE, L) : L \in SequenceLengths}
    /\ now = StartOfClock
    /\ pc = [w \in Workers |-> "idle"]
    /\ req = [w \in Workers |-> IdleReq]
    /\ submitted = 0
    /\ completed = [u \in UserIds |-> 0]
    /\ upc = [c \in Callers |-> "idle"]
    /\ ureq = [c \in Callers |-> IdleUpdate]
    /\ updates = 0
    /\ written = <<>>
    /\ probe = [tx |-> NoTx, result |-> NoResult, added |-> <<>>, returned |-> NotReady]
    /\ lifecycle = "running"
    /\ gateway_config = AllConfigured

NextPreprocessor == AddTransaction

SpecPreprocessor == InitPreprocessor /\ [][NextPreprocessor]_vars

\* the feature vectors of the last n transactions added, oldest first
LastAdded(n) ==
    [i \in 1..n |-> PrepareTransactionFeatures(probe.added[Len(probe.added) - n + i])]

\* C25: for a preprocessor with sequence length L used sequentially, the
\* k-th add_transaction returns 'not ready' when k < L and, when k >= L,
\* exactly the feature vectors of the last L added transactions, oldest
\* first; the buffer never holds more than L vectors after an add returns.
C25_SlidingWindow ==
    LET k == Len(probe.added)
        L == engine.sequence_length
    IN  /\ (k >= 1 /\ k < L) => probe.returned = NotReady
        /\ k >= L => probe.returned = [ready |-> TRUE, rows |-> LastAdded(L)]
        /\ Len(engine.transaction_buffer) <= L

\* reached: more than L transactions were added and the call returned the
\* last L of them, which are not the first L
C25_Witness_WindowSlid ==
    /\ Len(probe.added) > engine.sequence_length
    /\ probe.returned.ready
    /\ probe.returned.rows = LastAdded(engine.sequence_length)
    /\ probe.returned.rows
         # [i \in 1..engine.sequence_length |-> PrepareTransactionFeatures(probe.added[i])]

\* C27: the sequence passed to the model for a transaction of user u is
\* built from a buffer scoped to u: it holds only feature vectors of
\* transactions of user u, whatever other users' transactions were scored in
\* between.
C27_SequenceOfOneUser ==
    (Len(probe.added) >= 1 /\ probe.returned.ready)
        => \A i \in 1..Len(probe.returned.rows) :
              probe.returned.rows[i].user_id
                 = probe.added[Len(probe.added)].user_id

-----------------------------------------------------------------------------
(* add_transaction called from several request threads on the one buffer    *)

MaxCalls == 4

\* lines 296-299: the features are appended; held is the length of the
\* buffer when the call came in
BufferAppend(w) ==
    /\ pc[w] = "idle"
    /\ submitted < MaxCalls
    /\ \E tx \in BufferInputs :
         /\ engine' = [engine EXCEPT
                          !.transaction_buffer = Append(@, PrepareTransactionFeatures(tx))]
         /\ req' = [req EXCEPT ![w] =
                       [IdleReq EXCEPT !.input = [tx |-> tx,
                                                  held |-> Len(engine.transaction_buffer)]]]
    /\ pc' = [pc EXCEPT ![w] = "appended"]
    /\ submitted' = submitted + 1
    /\ UNCHANGED <<transactions, assessments, next_assessment_id, users, rules, now,
                   completed, upc, ureq, updates, written, probe,
                   lifecycle, gateway_config>>

\* lines 302-303: one row is dropped when the buffer is longer than
\* sequence_length
BufferTrim(w) ==
    /\ pc[w] = "appended"
    /\ engine' = [engine EXCEPT
                     !.transaction_buffer =
                         IF Len(@) > engine.sequence_length THEN Tail(@) ELSE @]
    /\ pc' = [pc EXCEPT ![w] = "trimmed"]
    /\ UNCHANGED <<transactions, assessments, next_assessment_id, users, rules, now,
                   req, submitted, completed, upc, ureq, updates, written, probe,
                   lifecycle, gateway_config>>

\* lines 306-310: the sequence is returned when the buffer holds exactly
\* sequence_length rows, else None
BufferReturn(w) ==
    /\ pc[w] = "trimmed"
    /\ req' = [req EXCEPT ![w].response =
                  AddTransactionReturn(engine.transaction_buffer, engine.sequence_length)]
    /\ pc' = [pc EXCEPT ![w] = "done"]
    /\ UNCHANGED <<transactions, assessments, next_assessment_id, users, rules,
                   engine, now, submitted, completed, upc, ureq, updates, written,
                   probe, lifecycle, gateway_config>>

NextBufferRace ==
    \/ \E w \in Workers : BufferAppend(w)
    \/ \E w \in Workers : BufferTrim(w)
    \/ \E w \in Workers : BufferReturn(w)
    \/ \E w \in Workers : Return(w)

SpecBufferRace == InitPreprocessor /\ [][NextBufferRace]_vars

\* C26: concurrent add_transaction calls on the shared buffer behave as if
\* serialised: whenever a call inspects the buffer for its result the buffer
\* holds at most L vectors, and every call made when the buffer already held
\* L vectors returns a full sequence of L rows, never 'not ready'.
C26_AddsSerialised ==
    \A w \in Workers :
        /\ pc[w] = "trimmed" => Len(engine.transaction_buffer) <= engine.sequence_length
        /\ (pc[w] = "done" /\ req[w].input.held >= engine.sequence_length)
           => /\ req[w].response.ready
              /\ Len(req[w].response.rows) = engine.sequence_length

-----------------------------------------------------------------------------
(* Claims about the reload of the model                                     *)

ScoredWithModel == Analyzed /\ probe.observed.used_rnn

\* C28: train_model swaps the model atomically: no scoring call running
\* beside it finds the engine with the newly trained model as rnn_model and
\* a preprocessor still made for the previous model.
C28_ReloadAtomic ==
    ScoredWithModel => probe.observed.rnn_model = probe.observed.preprocessor_model

\* reached: a call that scored with the model after a trained model and
\* its preprocessor were both installed
C28_AfterInstall ==
    /\ ScoredWithModel
    /\ probe.observed.rnn_model > 0
    /\ probe.observed.rnn_model = probe.observed.preprocessor_model

-----------------------------------------------------------------------------
(* Claims about a failing inference                                         *)

\* a call that went through _get_rnn_score, whose try block raised, and
\* that returned on the normal path
InferenceFailed ==
    /\ Analyzed
    /\ probe.rnn_raised # "none"
    /\ "component_scores" \in DOMAIN probe.result

\* the blend with the weights of an engine without a model
RebalancedBlend(rule_score, velocity_score) ==
    Round4(ClampScore(8000 * rule_score + 2000 * velocity_score))

\* C30: when a model is loaded and the inference raises, the rnn component
\* is 0 and the final score is the blend with the re-balanced weights
\* (0, 0.8, 0.2), not the one with the weights of a loaded model.
C30_FailedInferenceRebalanced ==
    InferenceFailed
    => /\ probe.result.component_scores.rnn_score = 0
       /\ probe.result.fraud_score =
              RebalancedBlend(probe.result.component_scores.rule_score,
                              probe.result.component_scores.velocity_score)

\* as coded: the rnn component is 0 and the blend keeps the weights the
\* engine had, (0.6, 0.3, 0.1) for an engine constructed with a model
C30_FailedInferenceKeepsWeights ==
    InferenceFailed
    => /\ probe.result.component_scores.rnn_score = 0
       /\ probe.result.fraud_score =
              Round4(ClampScore(engine.beta * probe.result.component_scores.rule_score
                                + engine.gamma
                                  * probe.result.component_scores.velocity_score))
       /\ engine.alpha = 6000

-----------------------------------------------------------------------------
(* Claims about duplicate submits and the order of the writes              *)

\* the step of worker w that runs save_transaction
SavesTransaction(w) == pc[w] = "save_transaction" /\ pc'[w] # "save_transaction"

\* C31: a submit whose transaction_id is that of a persisted transaction
\* when it inserts returns an error, creates no transaction or assessment
\* row, and leaves the existing row, its status and its assessments as they
\* were.
C31_DuplicateRejected ==
    [][\A w \in Workers :
          (SavesTransaction(w) /\ req[w].tx.transaction_id \in DOMAIN transactions)
          => /\ pc'[w] = "done"
             /\ req'[w].response.status = "error"
             /\ ~req'[w].saved
             /\ transactions' = transactions
             /\ assessments' = assessments
             /\ next_assessment_id' = next_assessment_id]_vars

\* reached: a submit answered with the error of save_transaction while the
\* row of its id, already assessed and past 'pending', is in the table
C31_Witness_DuplicateOfAssessed ==
    \E w \in Workers :
        /\ pc[w] = "done"
        /\ req[w].response.status = "error"
        /\ req[w].response.error = "save_transaction"
        /\ req[w].tx.transaction_id \in DOMAIN transactions
        /\ transactions[req[w].tx.transaction_id].transaction_status # "pending"
        /\ transactions[req[w].tx.transaction_id].amount # req[w].tx.amount
        /\ Len(AssessmentsOf(assessments, req[w].tx.transaction_id)) = 1

\* the assessment row a step adds, if it adds one
AddsAssessment == Len(assessments') = Len(assessments) + 1

\* C32: the writes of one submit come in the order transaction, assessment,
\* status: an assessment row is only added by a submit that has saved its
\* transaction, for a transaction_id that is in the table, and a status is
\* only changed by a submit that has saved its assessment.
C32_WritesInOrder ==
    [][/\ AddsAssessment
          => \E w \in Workers :
                /\ pc[w] = "save_assessment"
                /\ pc'[w] = "update_status"
                /\ req[w].saved
                /\ assessments'[Len(assessments')].transaction_id
                       = req[w].tx.transaction_id
                /\ req[w].tx.transaction_id \in DOMAIN transactions
       /\ \A t \in DOMAIN transactions \cap DOMAIN transactions' :
             transactions'[t].transaction_status # transactions[t].transaction_status
             => \E w \in Workers :
                   /\ pc[w] = "update_status"
                   /\ pc'[w] = "done"
                   /\ req[w].tx.transaction_id = t
                   /\ req[w].saved
                   /\ req[w].assessment_id # 0]_vars

\* reached: a submit that made its three writes
C32_Witness_AllThreeWritten ==
    \E w \in Workers :
        /\ pc[w] = "done"
        /\ req[w].response.status = "success"
        /\ req[w].tx.transaction_id \in DOMAIN transactions
        /\ transactions[req[w].tx.transaction_id].transaction_status # "pending"
        /\ \E i \in 1..Len(assessments) :
              /\ assessments[i].assessment_id = req[w].assessment_id
              /\ assessments[i].transaction_id = req[w].tx.transaction_id

-----------------------------------------------------------------------------
(* update_user_profile called again and again, one call after the other    *)

MaxProfileCalls == 12

SequentialProfileInputs == {in \in ProfileInputs : in.amount = 100000}

\* one whole call, lines 374-427: get_user, the new profile, the write; an
\* unknown user returns at once and a failing store is logged
UpdateUserProfile ==
    /\ updates < MaxProfileCalls
    /\ \E u \in UserIds \cup {UnknownUserId}, in \in SequentialProfileInputs,
          store_ok \in BOOLEAN :
         IF u \in DOMAIN users /\ store_ok
         THEN LET profile == NextProfile(users[u], in, now)
              IN  /\ users' = [users EXCEPT ![u] = profile]
                  /\ written' = Append(written,
                                   [user_id |-> u,
                                    entry |-> profile.fraud_history[
                                                 Len(profile.fraud_history)]])
         ELSE UNCHANGED <<users, written>>
    /\ updates' = updates + 1
    /\ now' = now + 1
    /\ UNCHANGED <<transactions, assessments, next_assessment_id, rules, engine,
                   pc, req, submitted, completed, upc, ureq, probe,
                   lifecycle, gateway_config>>

NextProfileSequential == UpdateUserProfile

SpecProfileSequential == Init /\ [][NextProfileSequential]_vars

\* the entries the calls for user u wrote, in call order
RECURSIVE EntriesOf(_, _)
EntriesOf(log, u) ==
    IF log = <<>> THEN <<>>
    ELSE IF Head(log).user_id = u
         THEN <<Head(log).entry>> \o EntriesOf(Tail(log), u)
         ELSE EntriesOf(Tail(log), u)

-----------------------------------------------------------------------------
(* Claims about the evaluation of single rules                              *)

\* the rule names _evaluate_rule has a branch for
EvaluatedRuleNames ==
    {"high_amount", "very_high_amount", "round_amount", "risky_merchant",
     "unusual_time"}

\* the table without the rules of other names
WithEvaluatedNames(rs) == SelectSeq(rs, LAMBDA r : r.rule_name \in EvaluatedRuleNames)

RuleFactorNames(result) ==
    {result.risk_factors[i].factor : i \in 1..Len(result.risk_factors)}

\* C34: an active rule of any other name (the seeded velocity_check with
\* weight 0.7 among them) is never among the triggered rules, adds nothing
\* to rule_score, and the call scores as it does without the rule.
C34_UnknownRuleSkipped ==
    RulesScored =>
        /\ "velocity_check" \notin RuleFactorNames(probe.result)
        /\ \A i \in 1..Len(rules) :
              rules[i].rule_name \notin EvaluatedRuleNames
              => rules[i].rule_name \notin RuleFactorNames(probe.result)
        /\ probe.result.component_scores.rule_score
             = GetRuleScore(probe.tx, WithEvaluatedNames(rules), TRUE).score

\* reached: a call scored with velocity_check active in the table and a
\* rule score that its weight would have raised
C34_Witness_VelocityCheckActive ==
    /\ RulesScored
    /\ \E i \in 1..Len(rules) :
          /\ rules[i].rule_name = "velocity_check"
          /\ rules[i].is_active
          /\ rules[i].weight = 7000
    /\ probe.result.component_scores.rule_score = 3000

\* some category of an active risky_merchant rule is in merchant_id, the
\* letter case of both left aside
CategoryInMerchant(tx, rs) ==
    \E i \in 1..Len(rs) :
        /\ rs[i].rule_name = "risky_merchant"
        /\ rs[i].is_active
        /\ \E j \in 1..Len(rs[i].rule_logic.categories) :
              IsSubstring(Lower(rs[i].rule_logic.categories[j]), Lower(tx.merchant_id))

\* C35: risky_merchant triggers exactly when some configured category is a
\* substring of merchant_id regardless of the letter case of the merchant_id
\* and of the category stored in rule_logic.
C35_RiskyMerchantIgnoresCase ==
    RulesScored =>
        (("risky_merchant" \in RuleFactorNames(probe.result))
         <=> CategoryInMerchant(probe.tx, rules))

\* as coded: the merchant_id is lowered, the category is compared as stored
C35_CategoryAsStored ==
    RulesScored =>
        (("risky_merchant" \in RuleFactorNames(probe.result))
         <=> \E i \in 1..Len(rules) :
                /\ rules[i].rule_name = "risky_merchant"
                /\ rules[i].is_active
                /\ \E j \in 1..Len(rules[i].rule_logic.categories) :
                      IsSubstring(rules[i].rule_logic.categories[j],
                                  Lower(probe.tx.merchant_id)))

-----------------------------------------------------------------------------
(* Claims about the velocity score                                          *)

\* the call fetched the history and went down the normal path
VelocityScored ==
    /\ Analyzed
    /\ "history_ok" \in DOMAIN probe
    /\ probe.history_ok
    /\ "error" \notin DOMAIN probe.result

\* the history the call was given
ProbeHistory == GetUserTransactionHistory(transactions, probe.tx.user_id, 1, now)

\* how many of the returned factors carry the name
FactorCount(result, name) ==
    Cardinality({i \in 1..Len(result.risk_factors) :
                    result.risk_factors[i].factor = name})

FactorWeights(result, name) ==
    {result.risk_factors[i].weight :
        i \in {j \in 1..Len(result.risk_factors) : result.risk_factors[j].factor = name}}

\* the factor of a signal is listed once, with the contribution as weight,
\* when the contribution is above zero, and not at all otherwise
ListedWhenPositive(result, name, contribution) ==
    IF contribution > 0
    THEN /\ FactorCount(result, name) = 1
         /\ FactorWeights(result, name) = {contribution}
    ELSE FactorCount(result, name) = 0

\* C36: for every history and transaction velocity_score is min(frequency +
\* amount divergence + rapid fire, 1.0), lies in [0, 1], and the velocity
\* factors hold one entry for a signal exactly when the signal contributes
\* more than zero.
C36_VelocityScoreAndFactors ==
    VelocityScored =>
        LET f == AnalyzeFrequency(ProbeHistory)
            a == AnalyzeAmountPatterns(ProbeHistory, probe.tx)
            t == AnalyzeTimePatterns(ProbeHistory)
            v == probe.result.component_scores.velocity_score
        IN  /\ v = Min(f + a + t, Scale)
            /\ 0 <= v /\ v <= Scale
            /\ ListedWhenPositive(probe.result, "high_frequency", f)
            /\ ListedWhenPositive(probe.result, "unusual_amount_pattern", a)
            /\ ListedWhenPositive(probe.result, "unusual_time_pattern", t)

\* reached: a call with two signals contributing and one contributing
\* nothing
C36_Witness_TwoSignalsOfThree ==
    /\ VelocityScored
    /\ AnalyzeFrequency(ProbeHistory) > 0
    /\ AnalyzeTimePatterns(ProbeHistory) > 0
    /\ AnalyzeAmountPatterns(ProbeHistory, probe.tx) = 0
    /\ FactorCount(probe.result, "unusual_amount_pattern") = 0
    /\ FactorCount(probe.result, "high_frequency") = 1

-----------------------------------------------------------------------------
(* Claims about webhook events that are not scored                          *)

\* an event that is not mapped to scoring for its gateway
NotScoredEvent(wh) ==
    IF wh.gateway = "paystack"
    THEN wh.event \notin {"charge.success", "transfer.success"}
    ELSE wh.event \notin {"charge.completed", "transfer.completed"}

\* the request of worker w is a verified webhook with such an event
VerifiedNotScored(input) ==
    /\ IsWebhook(input)
    /\ VerifySignature(input, gateway_config) = "true"
    /\ NotScoredEvent(input)

\* C37: a verified webhook whose event is not mapped to scoring (unknown,
\* charge.failed or transfer.failed for Paystack, anything but
\* charge.completed and transfer.completed for Flutterwave) is answered
\* with a response that is no error, does not enter Intake and writes
\* nothing to the store.
C37_UnmappedEventIgnored ==
    [][\A w \in Workers :
          (pc[w] = "idle" /\ pc'[w] # "idle" /\ VerifiedNotScored(req'[w].input))
          => /\ pc'[w] = "done"
             /\ req'[w].response.status \in {"success", "ignored"}
             /\ req'[w].tx = NoTx
             /\ ~req'[w].saved
             /\ transactions' = transactions
             /\ assessments' = assessments
             /\ users' = users]_vars

\* reached: a verified charge.failed of Paystack answered with success and
\* a verified unknown event answered as ignored
C37_Witness_FailedAndUnknown ==
    \E w, v \in Workers :
        /\ pc[w] = "done" /\ VerifiedNotScored(req[w].input)
        /\ req[w].input.gateway = "paystack"
        /\ req[w].input.event = "charge.failed"
        /\ req[w].response.status = "success"
        /\ pc[v] = "done" /\ VerifiedNotScored(req[v].input)
        /\ req[v].input.event = "subscription.create"
        /\ req[v].response.status = "ignored"

-----------------------------------------------------------------------------
(* Claims about deactivated rules                                           *)

\* the rules that were inactive in the table when the call read it, that
\* is, deactivated before the call started and not activated again
InactiveAtRead(call) ==
    {i \in 1..Len(call.table_at_read) : ~call.table_at_read[i].is_active}

\* the rules of the table that were active at the read and trigger on tx
ActiveTriggered(tx, table) ==
    SelectSeq(table, LAMBDA r : r.is_active /\ EvaluateRule(tx, r)[1])

\* C38: once deactivate_fraud_rule(r) has completed, a scoring call that
\* starts afterwards neither evaluates r nor lists it among its triggered
\* rules, and r's weight is not in its rule_score.
C38_DeactivatedRuleLeftOut ==
    probe.call.stage = "done" =>
        /\ \A i \in InactiveAtRead(probe.call) :
              \A j \in 1..Len(probe.call.snapshot) :
                  probe.call.snapshot[j].rule_id # probe.call.table_at_read[i].rule_id
        /\ Len(probe.result.factors)
             = Len(ActiveTriggered(probe.tx, probe.call.table_at_read))
        /\ probe.result.score
             = Min(WeightSum(ActiveTriggered(probe.tx, probe.call.table_at_read)), Scale)

\* reached: a seeded rule that triggers on the transaction was deactivated
\* before the call read the table, and the call has returned
C38_Witness_DeactivatedWouldTrigger ==
    /\ probe.call.stage = "done"
    /\ \E i \in InactiveAtRead(probe.call) :
          /\ i <= Len(DefaultRules)
          /\ DefaultRules[i].is_active
          /\ probe.call.table_at_read[i].weight > 0
          /\ EvaluateRule(probe.tx, probe.call.table_at_read[i])[1]

-----------------------------------------------------------------------------
(* Claims about the end of a call of receive_transaction                    *)

\* a request thread that has started a call runs it to its return: every
\* store call returns or raises
WorkerStep(w) ==
    \/ SaveTransaction(w)
    \/ Analyze(w)
    \/ SaveAssessment(w)
    \/ UpdateStatus(w)

SpecTerminating == Spec /\ \A w \in Workers : WF_vars(WorkerStep(w))

\* the response of a finished call: success or error, and success only with
\* the id of an assessment row that the call inserted for its transaction
AnsweredProperly(w) ==
    /\ req[w].response.status \in {"success", "error"}
    /\ req[w].response.status = "success"
       => /\ req[w].saved
          /\ req[w].assessment_id # 0
          /\ req[w].assessment_id < next_assessment_id
          /\ req[w].response.assessment_id = req[w].assessment_id
          /\ req[w].fraud_result.transaction_id = req[w].response.transaction_id

\* C39: every call of receive_transaction ends with a response of status
\* 'success' or 'error', whatever fails in validation, normalisation, the
\* store or the scoring, and 'success' is answered only after an assessment
\* row of the transaction was persisted.
C39_AlwaysAnswers ==
    /\ [](\A w \in Workers : pc[w] = "done" => AnsweredProperly(w))
    /\ \A w \in Workers : (pc[w] # "idle") ~> (pc[w] = "done")

\* reached: one call answered with an error after the store failed on its
\* assessment, another answered with success
C39_Witness_ErrorAndSuccess ==
    \E w, v \in Workers :
        /\ pc[w] = "done"
        /\ req[w].saved
        /\ req[w].response.status = "error"
        /\ req[w].response.error = "save_fraud_assessment"
        /\ pc[v] = "done"
        /\ req[v].response.status = "success"

-----------------------------------------------------------------------------
(* Claims about the references between the tables                           *)

\* C40: in every reachable state each persisted assessment refers to a
\* persisted transaction, however the submits interleave with
\* clear_transactions.
C40_AssessmentsReferToTransactions ==
    \A i \in 1..Len(assessments) : assessments[i].transaction_id \in DOMAIN transactions

\* reached: the tables were cleared while a submit was between its writes,
\* and a later submit has inserted its assessment
C40_Witness_ClearedBetweenWrites ==
    /\ assessments # <<>>
    /\ assessments[1].assessment_id > 1
    /\ \E w \in Workers :
          /\ pc[w] \in {"save_assessment", "update_status"}
          /\ req[w].saved
          /\ req[w].tx.transaction_id \notin DOMAIN transactions

=============================================================================
